---- MODULE Spec2Model ----
(***************************************************************************)
(* Model of the season comparison engine of epl-comparison-tool:           *)
(*   src/src/fixture_mapper.py  FixtureMapper (team mapping, projection)   *)
(*   src/src/comparison.py      TeamPerformanceComparison (aggregation,    *)
(*                              merge, deltas, league position)            *)
(* A pandas DataFrame is a sequence of records (rows); a nullable cell is  *)
(* the empty sequence (None / NaN) or a one-element sequence <<v>>.        *)
(***************************************************************************)
EXTENDS Integers, Sequences, FiniteSets, TLC

VARIABLES
    current_fixtures,        \* rows of data/fixtures_<current_season>.csv
    comparison_fixtures,     \* rows of data/fixtures_<comparison_season>.csv
    championship_standings,  \* rows of data/championship_standings_<season>.csv
    pc,                      \* "ready" before compare_seasons, "done" after it returned
    team_mapping,            \* dict built by _create_team_mapping
    mapped_fixtures,         \* frame returned by map_fixtures
    current_performance,     \* _calculate_team_performance(mapped_fixtures, "current")
    comparison_performance,  \* _calculate_team_performance(mapped_fixtures, "comparison")
    comparison_df,           \* frame returned by compare_seasons
    data_dir,                \* the fixture files of data/, by season
    raised,                  \* the exception a call ended with, NaN when it returned
    returned,                \* the value returned by a call that returns no frame
    call                     \* the call made: its name and its arguments

vars == <<current_fixtures, comparison_fixtures, championship_standings, pc,
          team_mapping, mapped_fixtures, current_performance,
          comparison_performance, comparison_df, data_dir, raised, returned,
          call>>

(***************************************************************************)
(* Bounds of the model.                                                    *)
(***************************************************************************)
MaxGoals == 1          \* a score is in 0..MaxGoals
MaxCur == 2            \* fixtures in the current season's file
MaxCmp == 2            \* fixtures in the comparison season's file

(***************************************************************************)
(* Nullable cells and team names.                                          *)
(***************************************************************************)
NaN == <<>>
notna(v) == v # NaN
Cell(x) == <<x>>

\* The club names of the model, in Python's str order (code point order).
TeamOrder == <<"Arsenal", "Burnley", "Chelsea", "Leeds", "Leicester",
               "Leicester City", "Luton", "Manchester United", "Norwich",
               "Sheffield United",
               "Southampton", "Watford">>

Lex(t) == CHOOSE i \in 1..Len(TeamOrder) : TeamOrder[i] = t

CurTeams == {"Arsenal", "Chelsea", "Leicester"}
CmpTeams == {"Arsenal", "Burnley", "Chelsea"}

\* sorted(S) for a set of team names
RECURSIVE sorted(_)
sorted(S) ==
    IF S = {} THEN <<>>
    ELSE LET m == CHOOSE t \in S : \A u \in S : Lex(t) <= Lex(u)
         IN  <<m>> \o sorted(S \ {m})

RECURSIVE SumSeq(_)
SumSeq(s) == IF s = <<>> THEN 0 ELSE s[1] + SumSeq(Tail(s))

(***************************************************************************)
(* data_fetcher.py: FootballDataAPI                                        *)
(* A cached file is NaN (no such file) or the one-element sequence of      *)
(* [columns, rows]: the column names of its header and its records.  A     *)
(* call ends with the value it returns or with an exception; an exception  *)
(* is a record of its type, the head of its message, the seasons its       *)
(* message names and the exception it was raised from.                     *)
(***************************************************************************)
Seasons == {"current", "comparison"}

Error(type, message, seasons, cause) ==
    [type |-> type, message |-> message, seasons |-> seasons, cause |-> cause]

required_columns == {"id", "home_team", "away_team", "season"}
MinRecords == 100

\* get_fixtures accepting a file of any length
get_fixtures_any_length(season, file) ==
    IF file = NaN
    THEN [raised |-> Cell(Error("FileNotFoundError", "Missing fixture data file",
                                {season}, NaN)),
          frame |-> <<>>]
    ELSE IF file[1].columns = {}
    THEN [raised |-> Cell(Error("ValueError", "Corrupted fixture data file",
                                {season}, NaN)),
          frame |-> <<>>]
    ELSE IF file[1].rows = <<>>
    THEN [raised |-> Cell(Error("ValueError", "Empty fixture data file",
                                {season}, NaN)),
          frame |-> <<>>]
    ELSE IF required_columns \ file[1].columns # {}
    THEN [raised |-> Cell(Error("ValueError", "Invalid fixture data structure",
                                {season}, NaN)),
          frame |-> <<>>]
    ELSE [raised |-> NaN, frame |-> file[1].rows]

\* get_fixtures(season): the exception raised, or the frame returned
get_fixtures(season, file) ==
    IF file = NaN
    THEN [raised |-> Cell(Error("FileNotFoundError", "Missing fixture data file",
                                {season}, NaN)),
          frame |-> <<>>]
    ELSE IF file[1].columns = {}                  \* pd.errors.EmptyDataError
    THEN [raised |-> Cell(Error("ValueError", "Corrupted fixture data file",
                                {season}, NaN)),
          frame |-> <<>>]
    ELSE IF file[1].rows = <<>>                   \* df.empty
    THEN [raised |-> Cell(Error("ValueError", "Empty fixture data file",
                                {season}, NaN)),
          frame |-> <<>>]
    ELSE IF required_columns \ file[1].columns # {}
    THEN [raised |-> Cell(Error("ValueError", "Invalid fixture data structure",
                                {season}, NaN)),
          frame |-> <<>>]
    ELSE IF Len(file[1].rows) < MinRecords
    THEN [raised |-> Cell(Error("ValueError", "Insufficient fixture data",
                                {season}, NaN)),
          frame |-> <<>>]
    ELSE [raised |-> NaN, frame |-> file[1].rows]

(***************************************************************************)
(* fixture_mapper.py: FixtureMapper                                        *)
(***************************************************************************)

\* set(list(fixtures["home_team"]) + list(fixtures["away_team"]))
TeamsOf(fixtures) ==
    {fixtures[i].home_team : i \in 1..Len(fixtures)}
        \cup {fixtures[i].away_team : i \in 1..Len(fixtures)}

\* name.lower().split() as a set of words
Words(name) ==
    CASE name = "Arsenal" -> {"arsenal"}
      [] name = "Burnley" -> {"burnley"}
      [] name = "Chelsea" -> {"chelsea"}
      [] name = "Leicester" -> {"leicester"}
      [] name = "Leicester City" -> {"leicester", "city"}
      [] name = "Leeds" -> {"leeds"}
      [] name = "Leeds United" -> {"leeds", "united"}
      [] name = "Luton" -> {"luton"}
      [] name = "Man United" -> {"man", "united"}
      [] name = "Manchester City" -> {"manchester", "city"}
      [] name = "Manchester United" -> {"manchester", "united"}
      [] name = "Barcelona" -> {"barcelona"}
      [] name = "Norwich" -> {"norwich"}
      [] name = "Norwich City" -> {"norwich", "city"}
      [] name = "Watford" -> {"watford"}
      [] name = "Watford FC" -> {"watford", "fc"}
      [] name = "Sheffield United" -> {"sheffield", "united"}
      [] name = "Sheffield Wednesday" -> {"sheffield", "wednesday"}
      [] name = "Southampton" -> {"southampton"}
      [] name = "Southampton FC" -> {"southampton", "fc"}
      [] OTHER -> {}

\* the alias table of _match_team_name
name_mappings ==
    [n \in {"Leicester City", "Leeds United", "Southampton FC",
            "Norwich City", "Watford FC", "Burnley FC"} |->
        CASE n = "Leicester City" -> "Leicester"
          [] n = "Leeds United" -> "Leeds"
          [] n = "Southampton FC" -> "Southampton"
          [] n = "Norwich City" -> "Norwich"
          [] n = "Watford FC" -> "Watford"
          [] n = "Burnley FC" -> "Burnley"]

\* _match_team_name: the set of results a run can return (NaN is None).  The
\* partial match returns the first team of a Python set that shares a word,
\* and the iteration order of a set of str is not fixed across runs.
match_team_name(championship_name, epl_teams) ==
    IF championship_name \in epl_teams THEN {Cell(championship_name)}
    ELSE IF /\ championship_name \in DOMAIN name_mappings
            /\ name_mappings[championship_name] \in epl_teams
         THEN {Cell(name_mappings[championship_name])}
    ELSE LET shared == {t \in epl_teams :
                            Words(championship_name) \cap Words(t) # {}}
         IN  IF shared = {} THEN {NaN} ELSE {Cell(t) : t \in shared}

\* head keeping every row of the frame
head_all(frame, n) == frame

\* championship_standings.head(3)
HeadRows == 3
head(frame, n) == SubSeq(frame, 1, IF Len(frame) < n THEN Len(frame) ELSE n)

\* the lists promoted_teams_sorted can hold after the loop over the head rows
RECURSIVE MatchedRows(_, _)
MatchedRows(rows, promoted_teams) ==
    IF rows = <<>> THEN {<<>>}
    ELSE LET row == rows[Len(rows)]
             before == MatchedRows(SubSeq(rows, 1, Len(rows) - 1), promoted_teams)
         IN  UNION {
                 {IF notna(m) THEN Append(b, <<row.position, m[1]>>) ELSE b :
                      m \in match_team_name(row.team_name, promoted_teams)} :
                 b \in before}

\* list.sort(key=lambda x: x[0]): a stable insertion sort on the position
RECURSIVE SortByPosition(_)
SortByPosition(l) ==
    IF l = <<>> THEN <<>>
    ELSE LET rest == SortByPosition(SubSeq(l, 1, Len(l) - 1))
             x == l[Len(l)]
             k == Cardinality({i \in 1..Len(rest) : rest[i][1] <= x[1]})
         IN  SubSeq(rest, 1, k) \o <<x>> \o SubSeq(rest, k + 1, Len(rest))

EmptyDict == [x \in {} |-> x]
DictSet(d, k, v) == [x \in DOMAIN d \cup {k} |-> IF x = k THEN v ELSE d[x]]
DictValues(d) == {d[k] : k \in DOMAIN d}
DictGet(d, k, default) == IF k \in DOMAIN d THEN d[k] ELSE default

\* for i, (_, promoted_team) in enumerate(promoted_teams_sorted):
\*     if i < len(relegated_teams_sorted):
\*         team_mapping[promoted_team] = relegated_teams_sorted[-(i + 1)]
\* after the first n entries of promoted_teams_sorted
RECURSIVE PairByPosition(_, _, _)
PairByPosition(promoted_sorted, relegated_sorted, n) ==
    IF n = 0 THEN EmptyDict
    ELSE LET d == PairByPosition(promoted_sorted, relegated_sorted, n - 1)
         IN  IF n - 1 < Len(relegated_sorted)
             THEN DictSet(d, promoted_sorted[n][2],
                          relegated_sorted[Len(relegated_sorted) - (n - 1)])
             ELSE d

\* zip read from the far end of the second list
RECURSIVE ZipInto_reversed(_, _, _)
ZipInto_reversed(d, ps, rs) ==
    IF ps = <<>> \/ rs = <<>> THEN d
    ELSE ZipInto_reversed(DictSet(d, ps[1], rs[Len(rs)]), Tail(ps),
                          SubSeq(rs, 1, Len(rs) - 1))

\* for promoted, relegated in zip(sorted(remaining_promoted), sorted(remaining_relegated))
RECURSIVE ZipInto(_, _, _)
ZipInto(d, ps, rs) ==
    IF ps = <<>> \/ rs = <<>> THEN d
    ELSE ZipInto(DictSet(d, ps[1], rs[1]), Tail(ps), Tail(rs))

\* no fallback loop at all
FallbackMapping_no_fallback(d, promoted_teams, relegated_teams) == d

\* the fallback loop zipping with every relegated team, paired already or not
FallbackMapping_any_relegated(d, promoted_teams, relegated_teams) ==
    ZipInto(d, sorted(promoted_teams \ DOMAIN d), sorted(relegated_teams))

FallbackMapping(d, promoted_teams, relegated_teams) ==
    ZipInto(d, sorted(promoted_teams \ DOMAIN d),
               sorted(relegated_teams \ DictValues(d)))

\* _create_team_mapping pairing the team sets themselves, not their differences
create_team_mapping_all_teams(current, comparison, standings) ==
    LET promoted_teams == TeamsOf(current)
        relegated_teams == TeamsOf(comparison)
    IN  IF promoted_teams = {} /\ relegated_teams = {} THEN {EmptyDict}
        ELSE {FallbackMapping(EmptyDict, promoted_teams, relegated_teams)}

\* _create_team_mapping: the set of dicts a run can return
create_team_mapping(current, comparison, standings) ==
    LET current_teams == TeamsOf(current)
        comparison_teams == TeamsOf(comparison)
        promoted_teams == current_teams \ comparison_teams
        relegated_teams == comparison_teams \ current_teams
    IN  IF promoted_teams = {} /\ relegated_teams = {} THEN {EmptyDict}
        ELSE IF /\ standings # <<>>
                /\ Cardinality(promoted_teams) = Cardinality(relegated_teams)
             THEN {FallbackMapping(
                       PairByPosition(SortByPosition(l), sorted(relegated_teams), Len(l)),
                       promoted_teams, relegated_teams) :
                   l \in MatchedRows(head(standings, HeadRows), promoted_teams)}
             ELSE {FallbackMapping(EmptyDict, promoted_teams, relegated_teams)}

\* _find_equivalent_fixture taking the first row of either orientation
find_equivalent_fixture_either_orientation(fixtures, home_team, away_team) ==
    LET match == SelectSeq(fixtures,
                     LAMBDA f : \/ f.home_team = home_team /\ f.away_team = away_team
                                \/ f.home_team = away_team /\ f.away_team = home_team)
    IN  IF match # <<>> THEN Cell(match[1]) ELSE NaN

\* the swapped pairing looked for before the exact one
find_equivalent_fixture_reverse_first(fixtures, home_team, away_team) ==
    LET match == SelectSeq(fixtures,
                     LAMBDA f : f.home_team = home_team /\ f.away_team = away_team)
        reverse_match == SelectSeq(fixtures,
                     LAMBDA f : f.home_team = away_team /\ f.away_team = home_team)
    IN  IF reverse_match # <<>> THEN Cell(reverse_match[1])
        ELSE IF match # <<>> THEN Cell(match[1])
        ELSE NaN

\* _find_equivalent_fixture: NaN (None) or the one-element sequence of the row
find_equivalent_fixture(fixtures, home_team, away_team) ==
    LET match == SelectSeq(fixtures,
                     LAMBDA f : f.home_team = home_team /\ f.away_team = away_team)
        reverse_match == SelectSeq(fixtures,
                     LAMBDA f : f.home_team = away_team /\ f.away_team = home_team)
    IN  IF match # <<>> THEN Cell(match[1])
        ELSE IF reverse_match # <<>> THEN Cell(reverse_match[1])
        ELSE NaN

\* the record map_fixtures appends for one current fixture
mapped_record(current_fixture, comparison, mapping) ==
    LET mapped_home == DictGet(mapping, current_fixture.home_team,
                               current_fixture.home_team)
        mapped_away == DictGet(mapping, current_fixture.away_team,
                               current_fixture.away_team)
        equivalent_fixture == find_equivalent_fixture(comparison, mapped_home, mapped_away)
        current_part ==
            [current_fixture_id |-> current_fixture.id,
             current_home_team |-> current_fixture.home_team,
             current_away_team |-> current_fixture.away_team,
             current_home_score |-> current_fixture.home_score,
             current_away_score |-> current_fixture.away_score,
             mapped_home_team |-> mapped_home,
             mapped_away_team |-> mapped_away]
    IN  IF equivalent_fixture # NaN
        THEN current_part @@
             [comparison_fixture_id |-> Cell(equivalent_fixture[1].id),
              comparison_home_score |-> equivalent_fixture[1].home_score,
              comparison_away_score |-> equivalent_fixture[1].away_score,
              mapping_found |-> TRUE]
        ELSE current_part @@
             [comparison_fixture_id |-> NaN,
              comparison_home_score |-> NaN,
              comparison_away_score |-> NaN,
              mapping_found |-> FALSE]

\* map_fixtures keeping only the records whose equivalent was found
map_fixtures_found_only(current, comparison, mapping) ==
    SelectSeq([i \in 1..Len(current) |-> mapped_record(current[i], comparison, mapping)],
              LAMBDA r : r.mapping_found)

\* map_fixtures, given the dict _create_team_mapping returned
map_fixtures(current, comparison, mapping) ==
    [i \in 1..Len(current) |-> mapped_record(current[i], comparison, mapping)]

(***************************************************************************)
(* comparison.py: TeamPerformanceComparison                                *)
(***************************************************************************)

\* Series.sum() of a score column (NaN cells are skipped)
ColumnSum(fixtures, col) ==
    SumSeq([i \in 1..Len(fixtures) |->
                IF notna(fixtures[i][col]) THEN fixtures[i][col][1] ELSE 0])

\* len(fixtures[fixtures[a] > fixtures[b]]) and the like; a comparison with NaN is False
CountGreater(fixtures, a, b) ==
    Cardinality({i \in 1..Len(fixtures) :
        /\ notna(fixtures[i][a]) /\ notna(fixtures[i][b])
        /\ fixtures[i][a][1] > fixtures[i][b][1]})

CountEqual(fixtures, a, b) ==
    Cardinality({i \in 1..Len(fixtures) :
        /\ notna(fixtures[i][a]) /\ notna(fixtures[i][b])
        /\ fixtures[i][a][1] = fixtures[i][b][1]})

WinPoints == 3
DrawPoints == 1

\* slip: goals_against summed over the team's own score column
calculate_fixtures_stats_own_goals_against(fixtures, team_score_col, opponent_score_col) ==
    IF fixtures = <<>>
    THEN [games |-> 0, points |-> 0, goals_for |-> 0, goals_against |-> 0,
          wins |-> 0, draws |-> 0, losses |-> 0]
    ELSE LET wins == CountGreater(fixtures, team_score_col, opponent_score_col)
             draws == CountEqual(fixtures, team_score_col, opponent_score_col)
             losses == CountGreater(fixtures, opponent_score_col, team_score_col)
         IN  [games |-> Len(fixtures),
              points |-> wins * WinPoints + draws * DrawPoints,
              goals_for |-> ColumnSum(fixtures, team_score_col),
              goals_against |-> ColumnSum(fixtures, team_score_col),
              wins |-> wins, draws |-> draws, losses |-> losses]

\* slip: a draw earns no point
calculate_fixtures_stats_no_draw_points(fixtures, team_score_col, opponent_score_col) ==
    IF fixtures = <<>>
    THEN [games |-> 0, points |-> 0, goals_for |-> 0, goals_against |-> 0,
          wins |-> 0, draws |-> 0, losses |-> 0]
    ELSE LET wins == CountGreater(fixtures, team_score_col, opponent_score_col)
             draws == CountEqual(fixtures, team_score_col, opponent_score_col)
             losses == CountGreater(fixtures, opponent_score_col, team_score_col)
         IN  [games |-> Len(fixtures),
              points |-> wins * WinPoints,
              goals_for |-> ColumnSum(fixtures, team_score_col),
              goals_against |-> ColumnSum(fixtures, opponent_score_col),
              wins |-> wins, draws |-> draws, losses |-> losses]

\* _calculate_fixtures_stats
calculate_fixtures_stats(fixtures, team_score_col, opponent_score_col) ==
    IF fixtures = <<>>
    THEN [games |-> 0, points |-> 0, goals_for |-> 0, goals_against |-> 0,
          wins |-> 0, draws |-> 0, losses |-> 0]
    ELSE LET wins == CountGreater(fixtures, team_score_col, opponent_score_col)
             draws == CountEqual(fixtures, team_score_col, opponent_score_col)
             losses == CountGreater(fixtures, opponent_score_col, team_score_col)
         IN  [games |-> Len(fixtures),
              points |-> wins * WinPoints + draws * DrawPoints,
              goals_for |-> ColumnSum(fixtures, team_score_col),
              goals_against |-> ColumnSum(fixtures, opponent_score_col),
              wins |-> wins, draws |-> draws, losses |-> losses]

\* the home team of the comparison view read from the current season's column
home_team_col_current_names(season_type) == "current_home_team"

\* the column names _calculate_team_performance reads for a season_type
home_team_col(season_type) ==
    IF season_type = "comparison" THEN "mapped_home_team" ELSE "current_home_team"
away_team_col(season_type) ==
    IF season_type = "comparison" THEN "mapped_away_team" ELSE "current_away_team"
home_score_col(season_type) ==
    IF season_type = "current" THEN "current_home_score" ELSE "comparison_home_score"
away_score_col(season_type) ==
    IF season_type = "current" THEN "current_away_score" ELSE "comparison_away_score"

\* slip: the filter keeps every fixture with scores, mapped or not
valid_fixtures_any_mapping(mapped, season_type) ==
    SelectSeq(mapped, LAMBDA r :
        /\ notna(r[home_score_col(season_type)])
        /\ notna(r[away_score_col(season_type)]))

\* valid_fixtures of _calculate_team_performance
valid_fixtures(mapped, season_type) ==
    SelectSeq(mapped, LAMBDA r :
        /\ r.mapping_found = TRUE
        /\ notna(r[home_score_col(season_type)])
        /\ notna(r[away_score_col(season_type)]))

\* home_stats of one team
home_stats_of(home_fixtures, season_type) ==
    calculate_fixtures_stats(home_fixtures,
        home_score_col(season_type), away_score_col(season_type))

\* slip: the away fixtures are read with the columns of the home fixtures
away_stats_of_home_columns(away_fixtures, season_type) ==
    calculate_fixtures_stats(away_fixtures,
        home_score_col(season_type), away_score_col(season_type))

\* away_stats of one team: the team's score is the away score
away_stats_of(away_fixtures, season_type) ==
    calculate_fixtures_stats(away_fixtures,
        away_score_col(season_type), home_score_col(season_type))

\* slip: the difference taken the wrong way round
goal_difference_reversed(goals_for, goals_against) == goals_against - goals_for

\* total_stats["goal_difference"]
goal_difference_of(goals_for, goals_against) == goals_for - goals_against

\* total_stats of one team
total_stats(valid, season_type, team) ==
    LET home_fixtures == SelectSeq(valid, LAMBDA r : r[home_team_col(season_type)] = team)
        away_fixtures == SelectSeq(valid, LAMBDA r : r[away_team_col(season_type)] = team)
        home_stats == home_stats_of(home_fixtures, season_type)
        away_stats == away_stats_of(away_fixtures, season_type)
        goals_for == home_stats.goals_for + away_stats.goals_for
        goals_against == home_stats.goals_against + away_stats.goals_against
    IN  [team |-> team,
         games_played |-> home_stats.games + away_stats.games,
         points |-> home_stats.points + away_stats.points,
         goals_for |-> goals_for,
         goals_against |-> goals_against,
         wins |-> home_stats.wins + away_stats.wins,
         draws |-> home_stats.draws + away_stats.draws,
         losses |-> home_stats.losses + away_stats.losses,
         goal_difference |-> goal_difference_of(goals_for, goals_against)]

\* all_teams = list(set(list(home_teams) + list(away_teams))).  The order of the
\* list is the iteration order of a Python set; the merge step keys the rows by
\* team, so the rows are listed here in name order.
all_teams(valid, season_type) ==
    sorted({valid[i][home_team_col(season_type)] : i \in 1..Len(valid)}
               \cup {valid[i][away_team_col(season_type)] : i \in 1..Len(valid)})

\* _calculate_team_performance: one row per team of all_teams
calculate_team_performance(mapped, season_type) ==
    LET valid == valid_fixtures(mapped, season_type)
        teams == all_teams(valid, season_type)
    IN  IF valid = <<>> THEN <<>>
        ELSE [i \in 1..Len(teams) |-> total_stats(valid, season_type, teams[i])]

\* A float quotient is kept exact, as a fraction in lowest terms with a positive
\* denominator; a denominator of 0 records a division by zero.
RECURSIVE Gcd(_, _)
Gcd(a, b) == IF b = 0 THEN a ELSE Gcd(b, a % b)
Abs(a) == IF a < 0 THEN -a ELSE a
Fraction(n, d) ==
    IF d = 0 THEN [num |-> n, den |-> 0]
    ELSE LET g == Gcd(Abs(n), Abs(d))
             s == IF d < 0 THEN -1 ELSE 1
         IN  [num |-> s * (n \div g), den |-> s * (d \div g)]
Percent == 100

\* the stats of a frame that has no row for the team, after merged.fillna(0)
ZeroStats ==
    [games_played |-> 0, points |-> 0, goals_for |-> 0, goals_against |-> 0,
     wins |-> 0, draws |-> 0, losses |-> 0, goal_difference |-> 0]

\* one row of pd.merge(..., on="team", how="outer") after fillna(0): c and p are
\* the team's rows of the two frames, NaN where the frame has none
merged_row(team, c, p) ==
    [team |-> team,
     current |-> IF notna(c) THEN c[1] ELSE ZeroStats,
     comparison |-> IF notna(p) THEN p[1] ELSE ZeroStats]

\* the rows of the outer join for one key: every pair of rows with that team
RowsWithTeam(frame, team) == SelectSeq(frame, LAMBDA r : r.team = team)
CellsOf(rows) == IF rows = <<>> THEN <<NaN>> ELSE [i \in 1..Len(rows) |-> Cell(rows[i])]
\* slip: how="inner", a team missing from one frame gets no row
JoinKey_inner(cur_perf, cmp_perf, team) ==
    LET cs == RowsWithTeam(cur_perf, team)
        ps == RowsWithTeam(cmp_perf, team)
    IN  [k \in 1..(Len(cs) * Len(ps)) |->
            merged_row(team, Cell(cs[((k - 1) \div Len(ps)) + 1]),
                             Cell(ps[((k - 1) % Len(ps)) + 1]))]

JoinKey(cur_perf, cmp_perf, team) ==
    LET cs == CellsOf(RowsWithTeam(cur_perf, team))
        ps == CellsOf(RowsWithTeam(cmp_perf, team))
    IN  [k \in 1..(Len(cs) * Len(ps)) |->
            merged_row(team, cs[((k - 1) \div Len(ps)) + 1], ps[((k - 1) % Len(ps)) + 1])]

RECURSIVE Concat(_)
Concat(ss) == IF ss = <<>> THEN <<>> ELSE ss[1] \o Concat(Tail(ss))

\* pd.merge(current_performance, comparison_performance, on="team", how="outer")
\* followed by fillna(0); an outer join lists the keys in sorted order
merge_outer(cur_perf, cmp_perf) ==
    LET keys == sorted({cur_perf[i].team : i \in 1..Len(cur_perf)}
                           \cup {cmp_perf[i].team : i \in 1..Len(cmp_perf)})
    IN  Concat([k \in 1..Len(keys) |-> JoinKey(cur_perf, cmp_perf, keys[k])])

\* slip: the quotient is taken without the guard on the previous points
points_percentage_change_unguarded(m) ==
    LET q == Fraction(m.current.points - m.comparison.points, m.comparison.points)
    IN  Fraction(q.num * Percent, q.den)

\* the lambda of merged.apply(..., axis=1) for points_percentage_change
points_percentage_change(m) ==
    LET points_difference == m.current.points - m.comparison.points
    IN  IF m.comparison.points > 0
        THEN LET q == Fraction(points_difference, m.comparison.points)
             IN  Fraction(q.num * Percent, q.den)
        ELSE Fraction(0, 1)

\* slip: the filter counts the games of either season
played_any_season(m) ==
    m.current.wins + m.current.draws + m.current.losses
        + m.comparison.wins + m.comparison.draws + m.comparison.losses > 0

\* merged[current_games_played > 0]
played_current(m) == m.current.wins + m.current.draws + m.current.losses > 0

\* slip: an unchanged value counts as improved
improved_or_equal(difference) == difference >= 0

\* merged["points_difference"] > 0, merged["goal_difference_change"] > 0
improved(difference) == difference > 0

\* one row of display_df, built from a row of merged and its league_position
display_row(m, league_position) ==
    [League_position |-> league_position,
     Team_name |-> m.team,
     Won |-> m.current.wins,
     Draw |-> m.current.draws,
     Lost |-> m.current.losses,
     Goals_for |-> m.current.goals_for,
     Goals_against |-> m.current.goals_against,
     Goal_difference |-> m.current.goal_difference,
     Points |-> m.current.points,
     Previous_won |-> m.comparison.wins,
     Previous_draw |-> m.comparison.draws,
     Previous_lost |-> m.comparison.losses,
     Previous_goals_for |-> m.comparison.goals_for,
     Previous_goals_against |-> m.comparison.goals_against,
     Previous_goal_difference |-> m.comparison.goal_difference,
     Previous_points |-> m.comparison.points,
     Points_difference |-> m.current.points - m.comparison.points,
     points_improved |-> improved(m.current.points - m.comparison.points),
     goal_difference_improved |->
         improved(m.current.goal_difference - m.comparison.goal_difference),
     points_percentage_change |-> points_percentage_change(m),
     goal_difference_change |->
         m.current.goal_difference - m.comparison.goal_difference,
     goals_for_difference |-> m.current.goals_for - m.comparison.goals_for,
     goals_against_difference |->
         m.current.goals_against - m.comparison.goals_against]

\* slip: ascending=True
sort_values_ascending(rows) ==
    LET n == Len(rows)
        perms == {p \in [1..n -> 1..n] : \A i, j \in 1..n : i # j => p[i] # p[j]}
    IN  {[i \in 1..n |-> rows[p[i]]] : p \in
            {p \in perms : \A i \in 1..n : \A j \in 1..n :
                i < j => rows[p[i]].current.points <= rows[p[j]].current.points}}

\* merged.sort_values(points, ascending=False): the orders of the rows in which
\* the current points never increase.  The default sort is not stable, so rows
\* with equal points can come out in any order.
sort_values(rows) ==
    LET n == Len(rows)
        perms == {p \in [1..n -> 1..n] : \A i, j \in 1..n : i # j => p[i] # p[j]}
    IN  {[i \in 1..n |-> rows[p[i]]] : p \in
            {p \in perms : \A i \in 1..n : \A j \in 1..n :
                i < j => rows[p[i]].current.points >= rows[p[j]].current.points}}

\* _merge_and_calculate_differences: the frames a run can return
merge_and_calculate_differences(cur_perf, cmp_perf) ==
    LET merged == SelectSeq(merge_outer(cur_perf, cmp_perf), played_current)
    IN  {[i \in 1..Len(s) |-> display_row(s[i], i)] : s \in sort_values(merged)}

\* The exceptions _merge_and_calculate_differences can end with.  When both
\* performance frames are empty, merged has no row and merged.apply(...,
\* axis=1) at line 277 returns what pandas returns for an empty frame: an
\* empty Series in some releases (the column is set and the empty table is
\* returned), a copy of the frame in others (setting it as one column raises).
\* The repository pins no pandas release: both outcomes are kept.
merge_errors(cur_perf, cmp_perf) ==
    IF merge_outer(cur_perf, cmp_perf) = <<>>
    THEN {Error("ValueError", "Cannot set a DataFrame with multiple columns", {}, NaN)}
    ELSE {}

\* the ways _merge_and_calculate_differences can end: the table returned,
\* or the exception raised
merge_outcomes(cur_perf, cmp_perf) ==
    {[comparison_df |-> df, raised |-> NaN] :
         df \in merge_and_calculate_differences(cur_perf, cmp_perf)}
    \cup {[comparison_df |-> <<>>, raised |-> Cell(e)] :
              e \in merge_errors(cur_perf, cmp_perf)}

\* the state compare_seasons leaves when it raises before a frame is computed
Failed(error) ==
    [team_mapping |-> EmptyDict,
     mapped_fixtures |-> <<>>,
     current_performance |-> <<>>,
     comparison_performance |-> <<>>,
     comparison_df |-> <<>>,
     raised |-> Cell(error)]

\* compare_seasons from line 45 on, the two frames loaded and the mapping
\* built: the outcomes of the run, each the frames computed, the table
\* returned and the exception raised (NaN when the table is returned)
compare_outcomes(current, comparison, mapping) ==
    LET mapped == map_fixtures(current, comparison, mapping)
        cur_perf == calculate_team_performance(mapped, "current")
        cmp_perf == calculate_team_performance(mapped, "comparison")
        frames == [team_mapping |-> mapping,
                   mapped_fixtures |-> mapped,
                   current_performance |-> cur_perf,
                   comparison_performance |-> cmp_perf]
    IN  IF mapped = <<>>                          \* mapped_fixtures.empty
        THEN {Failed(Error("ValueError", "No mapped fixtures found", Seasons, NaN))}
        ELSE {frames @@ o : o \in merge_outcomes(cur_perf, cmp_perf)}

\* compare_seasons going on with no fixtures for a season that failed to load
compare_seasons_best_effort(dir, standings) ==
    LET cur == get_fixtures("current", dir["current"])
        cmp == get_fixtures("comparison", dir["comparison"])
        loaded == [current_fixtures |-> cur.frame, comparison_fixtures |-> cmp.frame]
    IN  UNION {{loaded @@ o : o \in compare_outcomes(cur.frame, cmp.frame, mapping)} :
               mapping \in create_team_mapping(cur.frame, cmp.frame, standings)}

\* compare_seasons(current_season, comparison_season) on the files of data/:
\* the outcomes of the run, each with the two frames loaded.  map_fixtures
\* loads the current season first; an exception of get_fixtures is raised
\* again as a ValueError that names both seasons (lines 38-43).
compare_seasons(dir, standings) ==
    LET cur == get_fixtures("current", dir["current"])
        cmp == get_fixtures("comparison", dir["comparison"])
        loaded == [current_fixtures |-> cur.frame, comparison_fixtures |-> cmp.frame]
        wrapped(e) == Error("ValueError", "Cannot perform season comparison",
                            Seasons, e)
    IN  IF cur.raised # NaN
        THEN {[current_fixtures |-> <<>>, comparison_fixtures |-> <<>>]
                  @@ Failed(wrapped(cur.raised))}
        ELSE IF cmp.raised # NaN
        THEN {[current_fixtures |-> cur.frame, comparison_fixtures |-> <<>>]
                  @@ Failed(wrapped(cmp.raised))}
        ELSE UNION {{loaded @@ o : o \in compare_outcomes(cur.frame, cmp.frame, mapping)} :
                    mapping \in create_team_mapping(cur.frame, cmp.frame, standings)}

\* round(x, 2) of a quotient: the nearest hundredth, a tie to the even one
round2(x) ==
    LET q == x.num * 100
        lower == q \div x.den
        rest == q % x.den
        n == IF 2 * rest > x.den THEN lower + 1
             ELSE IF 2 * rest < x.den THEN lower
             ELSE IF lower % 2 = 0 THEN lower ELSE lower + 1
    IN  Fraction(n, 100)

\* get_team_comparison after compare_seasons returned comparison_df: the
\* value returned
team_comparison(team_name, df) ==
    LET team_data == SelectSeq(df, LAMBDA row : row.Team_name = team_name)
        team_row == team_data[1]
    IN  IF team_data = <<>>
        THEN [error |-> "not found in comparison data", team |-> team_name]
        ELSE [team |-> team_name,
              current_season |->
                  [games_played |-> team_row.Won + team_row.Draw + team_row.Lost,
                   points |-> team_row.Points,
                   wins |-> team_row.Won,
                   draws |-> team_row.Draw,
                   losses |-> team_row.Lost,
                   goals_for |-> team_row.Goals_for,
                   goals_against |-> team_row.Goals_against,
                   goal_difference |-> team_row.Goal_difference],
              comparison_season |->
                  [games_played |-> team_row.Previous_won + team_row.Previous_draw
                                        + team_row.Previous_lost,
                   points |-> team_row.Previous_points,
                   wins |-> team_row.Previous_won,
                   draws |-> team_row.Previous_draw,
                   losses |-> team_row.Previous_lost,
                   goals_for |-> team_row.Previous_goals_for,
                   goals_against |-> team_row.Previous_goals_against,
                   goal_difference |-> team_row.Previous_goal_difference],
              differences |->
                  [points |-> team_row.Points_difference,
                   goal_difference |-> team_row.goal_difference_change,
                   goals_for |-> team_row.goals_for_difference,
                   goals_against |-> team_row.goals_against_difference,
                   points_percentage_change |->
                       round2(team_row.points_percentage_change)],
              improvements |->
                  [points_improved |-> team_row.points_improved,
                   goal_difference_improved |-> team_row.goal_difference_improved]]

\* get_team_comparison raising a KeyError for a team that has no row
get_team_comparison_raising(team_name, outcome) ==
    IF outcome.raised # NaN
    THEN [raised |-> outcome.raised, returned |-> NaN]
    ELSE IF \A i \in 1..Len(outcome.comparison_df) :
                outcome.comparison_df[i].Team_name # team_name
    THEN [raised |-> Cell(Error("KeyError", "not found in comparison data", {}, NaN)),
          returned |-> NaN]
    ELSE [raised |-> NaN,
          returned |-> Cell(team_comparison(team_name, outcome.comparison_df))]

\* get_team_comparison(team_name, ...): compare_seasons runs first and its
\* exception leaves the call
get_team_comparison(team_name, outcome) ==
    IF outcome.raised # NaN
    THEN [raised |-> outcome.raised, returned |-> NaN]
    ELSE [raised |-> NaN,
          returned |-> Cell(team_comparison(team_name, outcome.comparison_df))]

\* the columns get_top_improvers reads for a metric
metric_columns ==
    [metric \in {"points", "goal_difference", "goals_for"} |->
        CASE metric = "points" ->
                 [sort_col |-> "Points_difference", current_col |-> "Points",
                  previous_col |-> "Previous_points"]
          [] metric = "goal_difference" ->
                 [sort_col |-> "goal_difference_change",
                  current_col |-> "Goal_difference",
                  previous_col |-> "Previous_goal_difference"]
          [] metric = "goals_for" ->
                 [sort_col |-> "goals_for_difference", current_col |-> "Goals_for",
                  previous_col |-> "Previous_goals_for"]]

\* the rows in non-increasing order of a column, rows of equal value in
\* their order in the frame
RECURSIVE sort_descending(_, _)
sort_descending(rows, col) ==
    IF rows = <<>> THEN <<>>
    ELSE LET rest == sort_descending(SubSeq(rows, 1, Len(rows) - 1), col)
             x == rows[Len(rows)]
             k == Cardinality({i \in 1..Len(rest) : rest[i][col] >= x[col]})
         IN  SubSeq(rest, 1, k) \o <<x>> \o SubSeq(rest, k + 1, Len(rest))

\* the first top_n rows of the table as it stands, not sorted on the column
nlargest_unsorted(rows, n, col) ==
    IF n <= 0 THEN <<>>
    ELSE SubSeq(rows, 1, IF Len(rows) < n THEN Len(rows) ELSE n)

\* comparison_df.nlargest(top_n, sort_col), keep="first"
nlargest(rows, n, col) ==
    IF n <= 0 THEN <<>>
    ELSE SubSeq(sort_descending(rows, col), 1, IF Len(rows) < n THEN Len(rows) ELSE n)

\* get_top_improvers(..., metric, top_n): compare_seasons runs first, then
\* the metric is looked up
get_top_improvers(metric, top_n, outcome) ==
    IF outcome.raised # NaN
    THEN [raised |-> outcome.raised, returned |-> NaN]
    ELSE IF metric \notin DOMAIN metric_columns
    THEN [raised |-> Cell(Error("ValueError", "Invalid metric", {}, NaN)),
          returned |-> NaN]
    ELSE LET cols == metric_columns[metric]
             top_teams == nlargest(outcome.comparison_df, top_n, cols.sort_col)
         IN  [raised |-> NaN,
              returned |->
                  Cell([i \in 1..Len(top_teams) |->
                           [team |-> top_teams[i].Team_name,
                            improvement |-> top_teams[i][cols.sort_col],
                            current_season_value |-> top_teams[i][cols.current_col],
                            comparison_season_value |->
                                top_teams[i][cols.previous_col]]])]

(***************************************************************************)
(* The season files the program can be started on.                         *)
(***************************************************************************)
Scores == {<<NaN, NaN>>} \cup {<<Cell(h), Cell(a)>> : h \in 0..MaxGoals, a \in 0..MaxGoals}

\* the (home, away) pairs of a season over a set of clubs, numbered in name order
Pairings(teams) ==
    LET s == sorted(teams)
        n == Len(s)
    IN  [k \in 1..(n * (n - 1)) |->
            LET h == ((k - 1) \div (n - 1)) + 1
                r == ((k - 1) % (n - 1)) + 1
                a == IF r < h THEN r ELSE r + 1
            IN  <<s[h], s[a]>>]

\* the fixture files of at most max rows: each pairing at most once (a season
\* plays every home/away pairing once), rows in pairing order, id = row number
SeasonFiles(teams, max) ==
    LET pairings == Pairings(teams)
        picks == {S \in SUBSET (1..Len(pairings)) : Cardinality(S) \in 1..max}
        RowsOf(S) == [i \in 1..Cardinality(S) |->
                        CHOOSE k \in S : Cardinality({j \in S : j < k}) = i - 1]
    IN  UNION {
            {[i \in 1..Cardinality(S) |->
                [id |-> i,
                 home_team |-> pairings[RowsOf(S)[i]][1],
                 away_team |-> pairings[RowsOf(S)[i]][2],
                 home_score |-> sc[i][1],
                 away_score |-> sc[i][2]]] :
             sc \in [1..Cardinality(S) -> Scores]} :
            S \in picks}

\* get_championship_standings when no Championship table is cached (the
\* repository ships none): an empty frame
NoStandings == <<>>

\* data/ when get_fixtures is patched to return the two frames, as the tests
\* patch it: no file is read
NoFiles == [season \in {} |-> season]

Init ==
    /\ current_fixtures \in SeasonFiles(CurTeams, MaxCur)
    /\ comparison_fixtures \in SeasonFiles(CmpTeams, MaxCmp)
    /\ championship_standings = NoStandings
    /\ pc = "ready"
    /\ team_mapping = EmptyDict
    /\ mapped_fixtures = <<>>
    /\ current_performance = <<>>
    /\ comparison_performance = <<>>
    /\ comparison_df = <<>>
    /\ data_dir = NoFiles
    /\ raised = NaN
    /\ returned = NaN
    /\ call = [name |-> "compare_seasons"]

\* compare_seasons(current_season, comparison_season) with get_fixtures
\* returning the two frames: the table is returned (pc = "done") or an
\* exception leaves the call (pc = "raised")
CompareSeasons ==
    /\ pc = "ready"
    /\ \E mapping \in create_team_mapping(current_fixtures, comparison_fixtures,
                                          championship_standings) :
       \E o \in compare_outcomes(current_fixtures, comparison_fixtures, mapping) :
           /\ team_mapping' = o.team_mapping
           /\ mapped_fixtures' = o.mapped_fixtures
           /\ current_performance' = o.current_performance
           /\ comparison_performance' = o.comparison_performance
           /\ comparison_df' = o.comparison_df
           /\ raised' = o.raised
           /\ pc' = IF o.raised = NaN THEN "done" ELSE "raised"
    /\ UNCHANGED <<current_fixtures, comparison_fixtures, championship_standings,
                   data_dir, returned, call>>

Next == CompareSeasons

Spec == Init /\ [][Next]_vars

(***************************************************************************)
(* _merge_and_calculate_differences on its own, called on two performance  *)
(* frames as tests/test_comparison.py calls it: a current frame that is    *)
(* empty or holds Arsenal next to a promoted Leicester, and a comparison   *)
(* frame that is empty or holds one row, of Arsenal or of a relegated      *)
(* Burnley.  The                                                           *)
(* frames of the tests (8-1-1 against 6-2-2, 25 points against 20) are     *)
(* among them.                                                             *)
(***************************************************************************)
MaxWon == 8
MaxDrawn == 2

StatsRow(team, wins, draws, losses, goals_for, goals_against) ==
    [team |-> team,
     games_played |-> wins + draws + losses,
     points |-> wins * WinPoints + draws * DrawPoints,
     goals_for |-> goals_for,
     goals_against |-> goals_against,
     wins |-> wins, draws |-> draws, losses |-> losses,
     goal_difference |-> goals_for - goals_against]

CurrentFrames ==
    {<<>>} \cup
    {<<StatsRow("Arsenal", w, d, 1, 30, 15), StatsRow("Leicester", 1, 1, 1, 3, 4)>> :
        w \in 0..MaxWon, d \in 0..MaxDrawn}

ComparisonFrames ==
    {<<>>} \cup
    {<<StatsRow(t, w, d, 2, 25, 20)>> :
        t \in {"Arsenal", "Burnley"}, w \in 0..MaxWon, d \in 0..MaxDrawn}

MergeInit ==
    /\ current_performance \in CurrentFrames
    /\ comparison_performance \in ComparisonFrames
    /\ pc = "frames"
    /\ current_fixtures = <<>>
    /\ comparison_fixtures = <<>>
    /\ championship_standings = NoStandings
    /\ team_mapping = EmptyDict
    /\ mapped_fixtures = <<>>
    /\ comparison_df = <<>>
    /\ data_dir = NoFiles
    /\ raised = NaN
    /\ returned = NaN
    /\ call = [name |-> "_merge_and_calculate_differences"]

\* _merge_and_calculate_differences(current_performance, comparison_performance, ...)
MergeFrames ==
    /\ pc = "frames"
    /\ \E o \in merge_outcomes(current_performance, comparison_performance) :
           /\ comparison_df' = o.comparison_df
           /\ raised' = o.raised
           /\ pc' = IF o.raised = NaN THEN "done" ELSE "raised"
    /\ UNCHANGED <<current_fixtures, comparison_fixtures, championship_standings,
                   team_mapping, mapped_fixtures, current_performance,
                   comparison_performance, data_dir, returned, call>>

MergeNext == MergeFrames

MergeSpec == MergeInit /\ [][MergeNext]_vars

(***************************************************************************)
(* _create_team_mapping on its own, as get_team_mapping_summary calls it,  *)
(* on two seasons that share Arsenal and Chelsea and differ in at most     *)
(* three clubs each way, and on a Championship table of at most            *)
(* MaxStandings rows.  The seasons and the table of                        *)
(* tests/test_fixture_mapper.py are among them.                            *)
(***************************************************************************)
MaxStandings == 3      \* rows of the Championship table
MaxMoved == 3          \* clubs that one season has and the other has not

Core == {"Arsenal", "Chelsea"}
PromotedPool == {"Leeds", "Leicester", "Sheffield United", "Southampton"}
RelegatedPool == {"Burnley", "Leeds", "Luton", "Sheffield United"}
ChampionshipNames == {"Leeds United", "Leicester City", "Sheffield United",
                      "Sheffield Wednesday", "Southampton FC"}

\* a season's fixture file: every home/away pairing of its clubs once, none
\* of them played yet
RoundRobin(teams) ==
    LET pairings == Pairings(teams)
    IN  [k \in 1..Len(pairings) |->
            [id |-> k,
             home_team |-> pairings[k][1],
             away_team |-> pairings[k][2],
             home_score |-> NaN,
             away_score |-> NaN]]

SeasonTeamSets(pool) ==
    {Core \cup moved : moved \in {S \in SUBSET pool : Cardinality(S) <= MaxMoved}}

\* the one-to-one functions from 1..n into S
Injections(n, S) == {f \in [1..n -> S] : \A i, j \in 1..n : i # j => f[i] # f[j]}

\* the rows of championship_standings_<season>.csv: a final table, every
\* position and every club once, in any row order
StandingsTables ==
    UNION {
        {[i \in 1..n |-> [position |-> pos[i], team_name |-> names[i]]] :
            pos \in Injections(n, 1..n),
            names \in Injections(n, ChampionshipNames)} :
        n \in 0..MaxStandings}

MapInit ==
    /\ \E teams \in SeasonTeamSets(PromotedPool) : current_fixtures = RoundRobin(teams)
    /\ \E teams \in SeasonTeamSets(RelegatedPool) : comparison_fixtures = RoundRobin(teams)
    /\ championship_standings \in StandingsTables
    /\ pc = "loaded"
    /\ team_mapping = EmptyDict
    /\ mapped_fixtures = <<>>
    /\ current_performance = <<>>
    /\ comparison_performance = <<>>
    /\ comparison_df = <<>>
    /\ data_dir = NoFiles
    /\ raised = NaN
    /\ returned = NaN
    /\ call = [name |-> "get_team_mapping_summary"]

\* get_team_mapping_summary(current_season, comparison_season): the mappings
\* of the summary it returns
GetTeamMappingSummary ==
    /\ pc = "loaded"
    /\ team_mapping' \in create_team_mapping(current_fixtures, comparison_fixtures,
                                             championship_standings)
    /\ pc' = "mapped"
    /\ UNCHANGED <<current_fixtures, comparison_fixtures, championship_standings,
                   mapped_fixtures, current_performance, comparison_performance,
                   comparison_df, data_dir, raised, returned, call>>

MapNext == GetTeamMappingSummary

MapSpec == MapInit /\ [][MapNext]_vars

(***************************************************************************)
(* _create_team_mapping on a Championship table of up to MaxTableRows      *)
(* rows, written in the order of the positions, and on seasons that differ *)
(* in up to four clubs each way: the table has rows beyond the third, and  *)
(* the promoted clubs can be fewer or more than three.                     *)
(***************************************************************************)
MaxTableRows == 4      \* rows of the Championship table

FourPromoted == {"Leeds", "Leicester", "Norwich", "Southampton"}
FourRelegated == {"Burnley", "Luton", "Sheffield United", "Watford"}
FinalTableNames == {"Leeds United", "Leicester City", "Norwich City",
                    "Sheffield Wednesday", "Southampton FC"}

\* the rows of a final table in the order of the positions
FinalTables ==
    UNION {
        {[i \in 1..n |-> [position |-> i, team_name |-> names[i]]] :
            names \in Injections(n, FinalTableNames)} :
        n \in 0..MaxTableRows}

HeadInit ==
    /\ \E moved \in SUBSET FourPromoted : current_fixtures = RoundRobin(Core \cup moved)
    /\ \E moved \in SUBSET FourRelegated : comparison_fixtures = RoundRobin(Core \cup moved)
    /\ championship_standings \in FinalTables
    /\ pc = "loaded"
    /\ team_mapping = EmptyDict
    /\ mapped_fixtures = <<>>
    /\ current_performance = <<>>
    /\ comparison_performance = <<>>
    /\ comparison_df = <<>>
    /\ data_dir = NoFiles
    /\ raised = NaN
    /\ returned = NaN
    /\ call = [name |-> "get_team_mapping_summary"]

HeadNext == GetTeamMappingSummary

HeadSpec == HeadInit /\ [][HeadNext]_vars

(***************************************************************************)
(* map_fixtures on its own, as map_fixtures_between_seasons calls it, on   *)
(* fixture files that may list a pairing more than once and in both        *)
(* orientations.  A current fixture is played 1-0 or not played yet; row k *)
(* of the comparison file ended k-0, so that the row joined shows in the   *)
(* scores as well as in the id.                                            *)
(***************************************************************************)
MaxProjected == 2      \* fixtures in the current season's file
MaxCandidates == 3     \* fixtures in the comparison season's file

\* the files of 1..max rows over the pairings of teams, id = row number,
\* the scores of row k given by score_of[k]
FixtureLists(teams, max, score_choices) ==
    LET pairings == Pairings(teams)
    IN  UNION {
            {[k \in 1..n |->
                [id |-> k,
                 home_team |-> pairings[pick[k]][1],
                 away_team |-> pairings[pick[k]][2],
                 home_score |-> sc[k][1],
                 away_score |-> sc[k][2]]] :
             pick \in [1..n -> 1..Len(pairings)],
             sc \in {f \in [1..n -> UNION {score_choices[k] : k \in 1..max}] :
                        \A k \in 1..n : f[k] \in score_choices[k]}} :
            n \in 1..max}

CurrentScoreChoices == [k \in 1..MaxProjected |-> {<<NaN, NaN>>, <<Cell(1), Cell(0)>>}]
ComparisonScoreChoices == [k \in 1..MaxCandidates |-> {<<Cell(k), Cell(0)>>}]

ProjectInit ==
    /\ current_fixtures \in FixtureLists(CurTeams, MaxProjected, CurrentScoreChoices)
    /\ comparison_fixtures \in FixtureLists(CmpTeams, MaxCandidates, ComparisonScoreChoices)
    /\ championship_standings = NoStandings
    /\ pc = "loaded"
    /\ team_mapping = EmptyDict
    /\ mapped_fixtures = <<>>
    /\ current_performance = <<>>
    /\ comparison_performance = <<>>
    /\ comparison_df = <<>>
    /\ data_dir = NoFiles
    /\ raised = NaN
    /\ returned = NaN
    /\ call = [name |-> "map_fixtures"]

\* map_fixtures(current_season, comparison_season): the mapping is built and
\* the current fixtures are projected in the same call
MapFixtures ==
    /\ pc = "loaded"
    /\ \E mapping \in create_team_mapping(current_fixtures, comparison_fixtures,
                                          championship_standings) :
           /\ team_mapping' = mapping
           /\ mapped_fixtures' = map_fixtures(current_fixtures, comparison_fixtures,
                                              mapping)
    /\ pc' = "projected"
    /\ UNCHANGED <<current_fixtures, comparison_fixtures, championship_standings,
                   current_performance, comparison_performance, comparison_df,
                   data_dir, raised, returned, call>>

ProjectNext == MapFixtures

ProjectSpec == ProjectInit /\ [][ProjectNext]_vars

(***************************************************************************)
(* map_fixtures on whole seasons: each file holds every home/away pairing  *)
(* of its clubs once, or lacks the last of them (a fixture that the        *)
(* download missed), over the seasons and Championship tables of MapInit.  *)
(***************************************************************************)
WholeSeasonFiles(pool) ==
    UNION {{RoundRobin(teams),
            SubSeq(RoundRobin(teams), 1, Len(RoundRobin(teams)) - 1)} :
           teams \in SeasonTeamSets(pool)}

RoundRobinInit ==
    /\ current_fixtures \in WholeSeasonFiles(PromotedPool)
    /\ comparison_fixtures \in WholeSeasonFiles(RelegatedPool)
    /\ championship_standings \in StandingsTables
    /\ pc = "loaded"
    /\ team_mapping = EmptyDict
    /\ mapped_fixtures = <<>>
    /\ current_performance = <<>>
    /\ comparison_performance = <<>>
    /\ comparison_df = <<>>
    /\ data_dir = NoFiles
    /\ raised = NaN
    /\ returned = NaN
    /\ call = [name |-> "map_fixtures"]

RoundRobinNext == MapFixtures

RoundRobinSpec == RoundRobinInit /\ [][RoundRobinNext]_vars

(***************************************************************************)
(* compare_seasons on seasons whose promoted clubs share a word of their   *)
(* names: Manchester United and Sheffield United came up, Burnley and      *)
(* Luton went down, and the Championship table lists Leeds United, which   *)
(* is not promoted, and Sheffield United.                                  *)
(***************************************************************************)
UnitedCurTeams == {"Arsenal", "Manchester United", "Sheffield United"}
UnitedCmpTeams == {"Arsenal", "Burnley", "Luton"}
UnitedTableNames == {"Leeds United", "Sheffield United"}

UnitedTables ==
    UNION {
        {[i \in 1..n |-> [position |-> i, team_name |-> names[i]]] :
            names \in Injections(n, UnitedTableNames)} :
        n \in 0..Cardinality(UnitedTableNames)}

UnitedInit ==
    /\ current_fixtures \in FixtureLists(UnitedCurTeams, MaxProjected, CurrentScoreChoices)
    /\ comparison_fixtures \in FixtureLists(UnitedCmpTeams, MaxCmp, ComparisonScoreChoices)
    /\ championship_standings \in UnitedTables
    /\ pc = "ready"
    /\ team_mapping = EmptyDict
    /\ mapped_fixtures = <<>>
    /\ current_performance = <<>>
    /\ comparison_performance = <<>>
    /\ comparison_df = <<>>
    /\ data_dir = NoFiles
    /\ raised = NaN
    /\ returned = NaN
    /\ call = [name |-> "compare_seasons"]

UnitedNext == CompareSeasons

UnitedSpec == UnitedInit /\ [][UnitedNext]_vars

(***************************************************************************)
(* The public calls on the files of data/: each season's file is missing,  *)
(* has no header, lacks one of the columns, or holds 0, 1, MinRecords - 1, *)
(* MinRecords or MinRecords + 1 records.  The clubs of a file meet in the  *)
(* order of their pairings, over and over; three fixtures in four are      *)
(* played.                                                                 *)
(***************************************************************************)
MaxTopN == 4           \* top_n of get_top_improvers is in -1..MaxTopN

all_columns == required_columns \cup {"home_score", "away_score"}
Headers == {all_columns} \cup {all_columns \ {c} : c \in required_columns}
RowCounts == {0, 1, MinRecords - 1, MinRecords, MinRecords + 1}

SeasonRows(teams, n) ==
    LET pairings == Pairings(teams)
    IN  [k \in 1..n |->
            LET pairing == pairings[((k - 1) % Len(pairings)) + 1]
                played == k % 4 # 0
            IN  [id |-> k,
                 home_team |-> pairing[1],
                 away_team |-> pairing[2],
                 home_score |-> IF played THEN Cell(k % 3) ELSE NaN,
                 away_score |-> IF played THEN Cell((k \div 3) % 2) ELSE NaN]]

CacheFiles(teams) ==
    {NaN, Cell([columns |-> {}, rows |-> <<>>])}
    \cup {Cell([columns |-> h, rows |-> SeasonRows(teams, n)]) :
             h \in Headers, n \in RowCounts}

QueryTeams == {"Arsenal", "Burnley", "Leicester"}
Metrics == {"points", "goal_difference", "goals_for", "goals_against"}

Calls ==
    {[name |-> "get_fixtures", season |-> season] : season \in Seasons}
    \cup {[name |-> "compare_team_performance"]}
    \cup {[name |-> "get_team_performance_summary", team_name |-> team_name] :
              team_name \in QueryTeams}
    \cup {[name |-> "get_top_improvers", metric |-> metric, top_n |-> top_n] :
              metric \in Metrics, top_n \in -1..MaxTopN}

LoadInit ==
    /\ \E cur \in CacheFiles(CurTeams) : \E cmp \in CacheFiles(CmpTeams) :
           data_dir = [season \in Seasons |->
                          IF season = "current" THEN cur ELSE cmp]
    /\ championship_standings = NoStandings
    /\ pc = "start"
    /\ current_fixtures = <<>>
    /\ comparison_fixtures = <<>>
    /\ team_mapping = EmptyDict
    /\ mapped_fixtures = <<>>
    /\ current_performance = <<>>
    /\ comparison_performance = <<>>
    /\ comparison_df = <<>>
    /\ raised = NaN
    /\ returned = NaN
    /\ call \in Calls

\* what a call leaves of the run of compare_seasons inside it
Ran(outcome) ==
    /\ current_fixtures' = outcome.current_fixtures
    /\ comparison_fixtures' = outcome.comparison_fixtures
    /\ team_mapping' = outcome.team_mapping
    /\ mapped_fixtures' = outcome.mapped_fixtures
    /\ current_performance' = outcome.current_performance
    /\ comparison_performance' = outcome.comparison_performance
    /\ comparison_df' = outcome.comparison_df

\* what a call ends with
Ended(result) ==
    /\ raised' = result.raised
    /\ returned' = result.returned
    /\ pc' = IF result.raised = NaN THEN "returned" ELSE "raised"

\* get_fixtures(season)
GetFixtures ==
    /\ pc = "start"
    /\ call.name = "get_fixtures"
    /\ LET r == get_fixtures(call.season, data_dir[call.season])
       IN  Ended([raised |-> r.raised,
                  returned |-> IF r.raised = NaN THEN Cell(r.frame) ELSE NaN])
    /\ UNCHANGED <<current_fixtures, comparison_fixtures, championship_standings,
                   team_mapping, mapped_fixtures, current_performance,
                   comparison_performance, comparison_df, data_dir, call>>

\* compare_team_performance(current_season, comparison_season)
CompareTeamPerformance ==
    /\ pc = "start"
    /\ call.name = "compare_team_performance"
    /\ \E o \in compare_seasons(data_dir, championship_standings) :
           /\ Ran(o)
           /\ raised' = o.raised
           /\ pc' = IF o.raised = NaN THEN "done" ELSE "raised"
    /\ UNCHANGED <<championship_standings, data_dir, returned, call>>

\* get_team_performance_summary(team_name, current_season, comparison_season)
GetTeamPerformanceSummary ==
    /\ pc = "start"
    /\ call.name = "get_team_performance_summary"
    /\ \E o \in compare_seasons(data_dir, championship_standings) :
           /\ Ran(o)
           /\ Ended(get_team_comparison(call.team_name, o))
    /\ UNCHANGED <<championship_standings, data_dir, call>>

\* get_top_improvers(current_season, comparison_season, metric, top_n)
GetTopImprovers ==
    /\ pc = "start"
    /\ call.name = "get_top_improvers"
    /\ \E o \in compare_seasons(data_dir, championship_standings) :
           /\ Ran(o)
           /\ Ended(get_top_improvers(call.metric, call.top_n, o))
    /\ UNCHANGED <<championship_standings, data_dir, call>>

LoadNext ==
    \/ GetFixtures
    \/ CompareTeamPerformance
    \/ GetTeamPerformanceSummary
    \/ GetTopImprovers

LoadSpec == LoadInit /\ [][LoadNext]_vars

(***************************************************************************)
(* compare_seasons step by step on files of data/ that another process     *)
(* rewrites while the call runs.  map_fixtures reads the two season files  *)
(* (lines 31-32), _create_team_mapping reads them again (lines 118-119),   *)
(* and the rest of the call works on what was read.  Every file is a       *)
(* complete one, of MinRecords or MinRecords + 1 records, or is missing.   *)
(***************************************************************************)
SnapshotTeamSets ==
    [season \in Seasons |->
        IF season = "current"
        THEN {{"Arsenal", "Chelsea", "Leicester"}, {"Arsenal", "Chelsea", "Leeds"}}
        ELSE {{"Arsenal", "Burnley", "Chelsea"}, {"Arsenal", "Chelsea", "Luton"}}]

SnapshotFiles(season) ==
    {NaN} \cup
    {Cell([columns |-> all_columns, rows |-> SeasonRows(teams, n)]) :
         teams \in SnapshotTeamSets[season], n \in {MinRecords, MinRecords + 1}}

SnapshotInit ==
    /\ data_dir \in [Seasons -> UNION {SnapshotFiles(season) : season \in Seasons}]
    /\ \A season \in Seasons : data_dir[season] \in SnapshotFiles(season)
    /\ championship_standings = NoStandings
    /\ pc = "called"
    /\ current_fixtures = <<>>
    /\ comparison_fixtures = <<>>
    /\ team_mapping = EmptyDict
    /\ mapped_fixtures = <<>>
    /\ current_performance = <<>>
    /\ comparison_performance = <<>>
    /\ comparison_df = <<>>
    /\ raised = NaN
    /\ returned = NaN
    /\ call = [name |-> "compare_seasons"]

\* the ValueError compare_seasons raises from an exception of get_fixtures
LoadError(e) == Cell(Error("ValueError", "Cannot perform season comparison", Seasons, e))

\* map_fixtures, lines 31-32: the two frames the fixtures are projected from
FetchFixtures ==
    /\ pc = "called"
    /\ LET cur == get_fixtures("current", data_dir["current"])
           cmp == get_fixtures("comparison", data_dir["comparison"])
       IN  IF cur.raised # NaN \/ cmp.raised # NaN
           THEN /\ raised' = LoadError(IF cur.raised # NaN THEN cur.raised ELSE cmp.raised)
                /\ pc' = "raised"
                /\ UNCHANGED <<current_fixtures, comparison_fixtures>>
           ELSE /\ current_fixtures' = cur.frame
                /\ comparison_fixtures' = cmp.frame
                /\ pc' = "fetched"
                /\ UNCHANGED raised
    /\ UNCHANGED <<championship_standings, team_mapping, mapped_fixtures,
                   current_performance, comparison_performance, comparison_df,
                   data_dir, returned, call>>

\* another process replaces or removes a season file while the call runs
RewriteFile ==
    /\ pc \in {"called", "fetched"}
    /\ \E season \in Seasons : \E file \in SnapshotFiles(season) :
           /\ file # data_dir[season]
           /\ data_dir' = [data_dir EXCEPT ![season] = file]
    /\ UNCHANGED <<current_fixtures, comparison_fixtures, championship_standings, pc,
                   team_mapping, mapped_fixtures, current_performance,
                   comparison_performance, comparison_df, raised, returned, call>>

\* _create_team_mapping, lines 118-196: the two files are read again and the
\* mapping is built from what is read now
CreateTeamMapping ==
    /\ pc = "fetched"
    /\ LET cur == get_fixtures("current", data_dir["current"])
           cmp == get_fixtures("comparison", data_dir["comparison"])
       IN  IF cur.raised # NaN \/ cmp.raised # NaN
           THEN /\ raised' = LoadError(IF cur.raised # NaN THEN cur.raised ELSE cmp.raised)
                /\ pc' = "raised"
                /\ UNCHANGED team_mapping
           ELSE /\ team_mapping' \in create_team_mapping(cur.frame, cmp.frame,
                                                        championship_standings)
                /\ pc' = "mapping_built"
                /\ UNCHANGED raised
    /\ UNCHANGED <<current_fixtures, comparison_fixtures, championship_standings,
                   mapped_fixtures, current_performance, comparison_performance,
                   comparison_df, data_dir, returned, call>>

\* map_fixtures from line 37 on and compare_seasons from line 45 on: the
\* frames of lines 31-32 are projected with the mapping and compared
ProjectAndCompare ==
    /\ pc = "mapping_built"
    /\ \E o \in compare_outcomes(current_fixtures, comparison_fixtures, team_mapping) :
           /\ mapped_fixtures' = o.mapped_fixtures
           /\ current_performance' = o.current_performance
           /\ comparison_performance' = o.comparison_performance
           /\ comparison_df' = o.comparison_df
           /\ raised' = o.raised
           /\ pc' = IF o.raised = NaN THEN "done" ELSE "raised"
    /\ UNCHANGED <<current_fixtures, comparison_fixtures, championship_standings,
                   team_mapping, data_dir, returned, call>>

SnapshotNext ==
    \/ FetchFixtures
    \/ RewriteFile
    \/ CreateTeamMapping
    \/ ProjectAndCompare

SnapshotSpec == SnapshotInit /\ [][SnapshotNext]_vars

(***************************************************************************)
(* _match_team_name on its own, on the names and the team sets of          *)
(* tests/test_fixture_mapper.py and on sets that hold several clubs with a *)
(* word in common.                                                         *)
(***************************************************************************)
MatchNames == {"Arsenal", "Barcelona", "Leeds United", "Leicester City",
               "Man United", "Sheffield Wednesday", "Southampton FC"}
MatchTeams == {"Arsenal", "Leeds", "Leicester", "Manchester City",
               "Manchester United", "Sheffield United", "Southampton"}

MatchInit ==
    /\ \E championship_name \in MatchNames : \E epl_teams \in SUBSET MatchTeams :
           call = [name |-> "_match_team_name",
                   championship_name |-> championship_name,
                   epl_teams |-> epl_teams]
    /\ pc = "called"
    /\ current_fixtures = <<>>
    /\ comparison_fixtures = <<>>
    /\ championship_standings = NoStandings
    /\ team_mapping = EmptyDict
    /\ mapped_fixtures = <<>>
    /\ current_performance = <<>>
    /\ comparison_performance = <<>>
    /\ comparison_df = <<>>
    /\ data_dir = NoFiles
    /\ raised = NaN
    /\ returned = NaN

\* _match_team_name(championship_name, epl_teams): the value returned, NaN
\* for None
MatchTeamName ==
    /\ pc = "called"
    /\ call.name = "_match_team_name"
    /\ \E matched \in match_team_name(call.championship_name, call.epl_teams) :
           returned' = Cell(matched)
    /\ pc' = "returned"
    /\ UNCHANGED <<current_fixtures, comparison_fixtures, championship_standings,
                   team_mapping, mapped_fixtures, current_performance,
                   comparison_performance, comparison_df, data_dir, raised, call>>

MatchNext == MatchTeamName

MatchSpec == MatchInit /\ [][MatchNext]_vars

(***************************************************************************)
(* Quantities the properties are stated in, read off the mapped fixtures   *)
(* fixture by fixture.                                                     *)
(***************************************************************************)
Views == {"current", "comparison"}
AllNames == CurTeams \cup CmpTeams

HomeTeamIn(r, view) ==
    IF view = "current" THEN r.current_home_team ELSE r.mapped_home_team
AwayTeamIn(r, view) ==
    IF view = "current" THEN r.current_away_team ELSE r.mapped_away_team
HomeScoreIn(r, view) ==
    IF view = "current" THEN r.current_home_score ELSE r.comparison_home_score
AwayScoreIn(r, view) ==
    IF view = "current" THEN r.current_away_score ELSE r.comparison_away_score

Scored(r, view) == HomeScoreIn(r, view) # NaN /\ AwayScoreIn(r, view) # NaN
PlaysIn(r, view, t) == t = HomeTeamIn(r, view) \/ t = AwayTeamIn(r, view)
\* the score on the team's own side of the record, and on the other side
OwnScore(r, view, t) ==
    IF t = HomeTeamIn(r, view) THEN HomeScoreIn(r, view)[1] ELSE AwayScoreIn(r, view)[1]
OppScore(r, view, t) ==
    IF t = HomeTeamIn(r, view) THEN AwayScoreIn(r, view)[1] ELSE HomeScoreIn(r, view)[1]

\* indices of the mapped fixtures with both scores of the view present
ScoredFixtures(view) ==
    {j \in 1..Len(mapped_fixtures) : Scored(mapped_fixtures[j], view)}
\* ... and that also found their equivalent fixture
FoundScoredFixtures(view) ==
    {j \in ScoredFixtures(view) : mapped_fixtures[j].mapping_found}

FixturesOf(Q, view, t) == {j \in Q : PlaysIn(mapped_fixtures[j], view, t)}
OwnGoals(Q, view, t) ==
    SumSeq([j \in 1..Len(mapped_fixtures) |->
        IF j \in FixturesOf(Q, view, t) THEN OwnScore(mapped_fixtures[j], view, t) ELSE 0])
OppGoals(Q, view, t) ==
    SumSeq([j \in 1..Len(mapped_fixtures) |->
        IF j \in FixturesOf(Q, view, t) THEN OppScore(mapped_fixtures[j], view, t) ELSE 0])

RowsOfTeam(frame, t) == {i \in 1..Len(frame) : frame[i].team = t}

\* frame holds, for team t, exactly the tally of the fixtures Q of the view:
\* no row when t plays in none of them, else one row with the counts and sums
TeamTally(frame, view, Q, t) ==
    LET mine == FixturesOf(Q, view, t)
        won == {j \in mine : OwnScore(mapped_fixtures[j], view, t)
                                > OppScore(mapped_fixtures[j], view, t)}
        drawn == {j \in mine : OwnScore(mapped_fixtures[j], view, t)
                                = OppScore(mapped_fixtures[j], view, t)}
        lost == {j \in mine : OwnScore(mapped_fixtures[j], view, t)
                                < OppScore(mapped_fixtures[j], view, t)}
    IN  IF mine = {} THEN RowsOfTeam(frame, t) = {}
        ELSE /\ Cardinality(RowsOfTeam(frame, t)) = 1
             /\ \A i \in RowsOfTeam(frame, t) :
                    /\ frame[i].games_played = Cardinality(mine)
                    /\ frame[i].wins = Cardinality(won)
                    /\ frame[i].draws = Cardinality(drawn)
                    /\ frame[i].losses = Cardinality(lost)
                    /\ frame[i].points = 3 * Cardinality(won) + Cardinality(drawn)
                    /\ frame[i].goals_for = OwnGoals(Q, view, t)
                    /\ frame[i].goals_against = OppGoals(Q, view, t)

\* the current fixtures that found no equivalent although they were played
UnmappedPlayed ==
    {j \in ScoredFixtures("current") : ~mapped_fixtures[j].mapping_found}

DecisiveFolded ==
    {j \in FoundScoredFixtures("current") :
        mapped_fixtures[j].current_home_score # mapped_fixtures[j].current_away_score}
DrawnFolded ==
    {j \in FoundScoredFixtures("current") :
        mapped_fixtures[j].current_home_score = mapped_fixtures[j].current_away_score}
TotalCurrentPoints ==
    SumSeq([i \in 1..Len(current_performance) |-> current_performance[i].points])

C3_OnePointPerDraw ==
    pc = "done" =>
        TotalCurrentPoints = 3 * Cardinality(DecisiveFolded) + Cardinality(DrawnFolded)

(***************************************************************************)
(* C3 amended: the points of the current-view standings add up to 3 per    *)
(* decisive fixture plus 2 per drawn fixture (one for each team), over the *)
(* fixtures folded into the current table.                                 *)
(***************************************************************************)
C3_PointsConservation ==
    pc = "done" =>
        TotalCurrentPoints
            = 3 * Cardinality(DecisiveFolded) + 2 * Cardinality(DrawnFolded)

\* a table folded from one decisive and one drawn fixture
C3_Witness ==
    /\ pc = "done"
    /\ Cardinality(DecisiveFolded) = 1
    /\ Cardinality(DrawnFolded) = 1

(***************************************************************************)
(* C4: goal_difference = goals_for - goals_against in every standing of    *)
(* either view, and in the current and the Previous columns of every row   *)
(* returned by compare_seasons.                                            *)
(***************************************************************************)
C4_GoalDifference ==
    pc = "done" =>
        /\ \A i \in 1..Len(current_performance) :
               current_performance[i].goal_difference
                   = current_performance[i].goals_for
                         - current_performance[i].goals_against
        /\ \A i \in 1..Len(comparison_performance) :
               comparison_performance[i].goal_difference
                   = comparison_performance[i].goals_for
                         - comparison_performance[i].goals_against
        /\ \A i \in 1..Len(comparison_df) :
               /\ comparison_df[i].Goal_difference
                      = comparison_df[i].Goals_for - comparison_df[i].Goals_against
               /\ comparison_df[i].Previous_goal_difference
                      = comparison_df[i].Previous_goals_for
                            - comparison_df[i].Previous_goals_against

\* a returned row with a negative current and a positive previous goal difference
C4_Witness ==
    /\ pc = "done"
    /\ \E i \in 1..Len(comparison_df) :
           /\ comparison_df[i].Goal_difference < 0
           /\ comparison_df[i].Previous_goal_difference > 0

(***************************************************************************)
(* C5: home/away symmetry.  Swapping the home and the away side (teams and *)
(* scores) of every mapped fixture leaves the standings of both views      *)
(* unchanged.                                                              *)
(***************************************************************************)
SwapSides(r) ==
    [r EXCEPT !.current_home_team = r.current_away_team,
              !.current_away_team = r.current_home_team,
              !.current_home_score = r.current_away_score,
              !.current_away_score = r.current_home_score,
              !.mapped_home_team = r.mapped_away_team,
              !.mapped_away_team = r.mapped_home_team,
              !.comparison_home_score = r.comparison_away_score,
              !.comparison_away_score = r.comparison_home_score]

SwappedFixtures == [j \in 1..Len(mapped_fixtures) |-> SwapSides(mapped_fixtures[j])]

C5_HomeAwaySymmetry ==
    pc = "done" =>
        /\ calculate_team_performance(SwappedFixtures, "current") = current_performance
        /\ calculate_team_performance(SwappedFixtures, "comparison")
               = comparison_performance

\* a decisive fixture counted in both views, so that the swap moves a win
C5_Witness ==
    /\ pc = "done"
    /\ \E j \in FoundScoredFixtures("current") \cap FoundScoredFixtures("comparison") :
           /\ mapped_fixtures[j].current_home_score[1]
                  > mapped_fixtures[j].current_away_score[1]
           /\ mapped_fixtures[j].comparison_home_score[1]
                  < mapped_fixtures[j].comparison_away_score[1]

(***************************************************************************)
(* C6: the rows returned by compare_seasons are exactly the teams whose    *)
(* current-view standing has games_played > 0, each once; a team that has  *)
(* only comparison-view stats gets no row.                                 *)
(***************************************************************************)
RowsNamed(t) == {i \in 1..Len(comparison_df) : comparison_df[i].Team_name = t}
PlayedCurrent(t) ==
    \E i \in 1..Len(current_performance) :
        current_performance[i].team = t /\ current_performance[i].games_played > 0

C6_RowsAreCurrentTeams ==
    pc = "done" =>
        \A t \in AllNames :
            Cardinality(RowsNamed(t)) = IF PlayedCurrent(t) THEN 1 ELSE 0

\* a team with comparison-view points and no current-view standing is dropped
\* while another team gets a row
C6_Witness ==
    /\ pc = "done"
    /\ comparison_df # <<>>
    /\ \E i \in 1..Len(comparison_performance) :
           /\ comparison_performance[i].points > 0
           /\ ~PlayedCurrent(comparison_performance[i].team)
           /\ RowsNamed(comparison_performance[i].team) = {}

(***************************************************************************)
(* C7: in a returned table of N rows the league positions are 1..N, the    *)
(* k-th row has position k, and the current points never increase from a   *)
(* row to the next.                                                        *)
(***************************************************************************)
C7_LeaguePositions ==
    pc = "done" =>
        /\ \A k \in 1..Len(comparison_df) : comparison_df[k].League_position = k
        /\ \A k \in 1..(Len(comparison_df) - 1) :
               comparison_df[k].Points >= comparison_df[k + 1].Points

\* three rows with three different point totals, the leader not first by name
C7_Witness ==
    /\ pc = "done"
    /\ Len(comparison_df) = 3
    /\ comparison_df[1].Points > comparison_df[2].Points
    /\ comparison_df[2].Points > comparison_df[3].Points
    /\ Lex(comparison_df[1].Team_name) > Lex(comparison_df[3].Team_name)

(***************************************************************************)
(* C8: zero-fill of the outer join.  A team with a current-view standing   *)
(* and no comparison-view standing has a row whose Previous fields are all *)
(* 0 and whose points difference is its current points.                    *)
(***************************************************************************)
OnlyCurrent(t) ==
    /\ RowsOfTeam(current_performance, t) # {}
    /\ RowsOfTeam(comparison_performance, t) = {}

C8_ZeroFill ==
    pc = "done" =>
        \A t \in AllNames :
            OnlyCurrent(t) =>
                /\ RowsNamed(t) # {}
                /\ \A i \in RowsNamed(t) :
                       /\ comparison_df[i].Previous_won = 0
                       /\ comparison_df[i].Previous_draw = 0
                       /\ comparison_df[i].Previous_lost = 0
                       /\ comparison_df[i].Previous_goals_for = 0
                       /\ comparison_df[i].Previous_goals_against = 0
                       /\ comparison_df[i].Previous_goal_difference = 0
                       /\ comparison_df[i].Previous_points = 0
                       /\ comparison_df[i].Points_difference = comparison_df[i].Points

\* such a team with current points, in a table where another team has previous points
C8_Witness ==
    /\ pc = "done"
    /\ \E t \in AllNames :
           /\ OnlyCurrent(t)
           /\ \E i \in RowsNamed(t) : comparison_df[i].Points > 0
    /\ \E i \in 1..Len(comparison_df) : comparison_df[i].Previous_points > 0

(***************************************************************************)
(* C9: in every returned row each difference is the current value minus    *)
(* the previous value, points_improved holds exactly when the points       *)
(* difference is positive and goal_difference_improved exactly when the    *)
(* goal difference change is positive.                                     *)
(***************************************************************************)
C9_Differences ==
    pc = "done" =>
        \A i \in 1..Len(comparison_df) :
            LET row == comparison_df[i]
            IN  /\ row.Points_difference = row.Points - row.Previous_points
                /\ row.goal_difference_change
                       = row.Goal_difference - row.Previous_goal_difference
                /\ row.goals_for_difference = row.Goals_for - row.Previous_goals_for
                /\ row.goals_against_difference
                       = row.Goals_against - row.Previous_goals_against
                /\ row.points_improved = (row.Points_difference > 0)
                /\ row.goal_difference_improved = (row.goal_difference_change > 0)

\* a row with equal points in both seasons next to a row that improved
C9_Witness ==
    /\ pc = "done"
    /\ \E i \in 1..Len(comparison_df) :
           /\ comparison_df[i].Points = comparison_df[i].Previous_points
           /\ comparison_df[i].Points > 0
           /\ ~comparison_df[i].points_improved
    /\ \E i \in 1..Len(comparison_df) :
           /\ comparison_df[i].points_improved
           /\ comparison_df[i].goal_difference_change < 0

(***************************************************************************)
(* C10: points_percentage_change is points_difference / previous points *  *)
(* 100 when the previous points are positive and 0 when they are 0, also   *)
(* when the difference is not 0; no division by zero takes place.          *)
(***************************************************************************)
C10_PercentageChange ==
    pc = "done" =>
        \A i \in 1..Len(comparison_df) :
            LET row == comparison_df[i]
                pct == row.points_percentage_change
            IN  /\ pct.den > 0
                /\ row.Previous_points > 0 =>
                       pct.num * row.Previous_points = 100 * row.Points_difference * pct.den
                /\ row.Previous_points = 0 => pct.num = 0

\* the frames of the test: a difference of 5 on 20 previous points gives 25,
\* next to a row with previous points 0 and a nonzero difference
C10_Witness ==
    /\ pc = "done"
    /\ \E i \in 1..Len(comparison_df) :
           /\ comparison_df[i].Previous_points = 20
           /\ comparison_df[i].Points_difference = 5
           /\ comparison_df[i].points_percentage_change = [num |-> 25, den |-> 1]
    /\ \E i \in 1..Len(comparison_df) :
           /\ comparison_df[i].Previous_points = 0
           /\ comparison_df[i].Points_difference # 0
           /\ comparison_df[i].points_percentage_change = [num |-> 0, den |-> 1]

(***************************************************************************)
(* Quantities of the team mapping: the team sets of the two seasons and    *)
(* the promoted and relegated clubs.                                       *)
(***************************************************************************)
Participants(fixtures) ==
    UNION {{fixtures[i].home_team, fixtures[i].away_team} : i \in 1..Len(fixtures)}

Promoted == Participants(current_fixtures) \ Participants(comparison_fixtures)
Relegated == Participants(comparison_fixtures) \ Participants(current_fixtures)

Min(a, b) == IF a < b THEN a ELSE b

\* the number of teams of S that sort before t
RankIn(S, t) == Cardinality({u \in S : Lex(u) < Lex(t)})

\* the team the substitution sends t to
Substitute(t) == IF t \in DOMAIN team_mapping THEN team_mapping[t] ELSE t

(***************************************************************************)
(* C11: when the two seasons have the same team set, the mapping built is  *)
(* empty, whatever the Championship table holds.                           *)
(***************************************************************************)
C11_SameTeamsEmptyMapping ==
    (pc = "mapped"
        /\ Participants(current_fixtures) = Participants(comparison_fixtures))
    => team_mapping = EmptyDict

\* two seasons of the same five clubs, Leeds among them, and a full table
\* that lists Leeds United
C11_Witness ==
    /\ pc = "mapped"
    /\ Participants(current_fixtures) = Participants(comparison_fixtures)
    /\ "Leeds" \in Participants(current_fixtures)
    /\ Cardinality(Participants(current_fixtures)) = 4
    /\ Len(championship_standings) = MaxStandings
    /\ \E i \in 1..Len(championship_standings) :
           championship_standings[i].team_name = "Leeds United"
    /\ team_mapping = EmptyDict

C13_OneToOne ==
    pc = "mapped" =>
        /\ DOMAIN team_mapping \subseteq Promoted
        /\ \A p \in DOMAIN team_mapping : team_mapping[p] \in Relegated
        /\ \A p, q \in DOMAIN team_mapping :
               team_mapping[p] = team_mapping[q] => p = q
        /\ \A t, u \in Participants(current_fixtures) :
               Substitute(t) = Substitute(u) => t = u

\* two rows of the table resolve to the same promoted team (Sheffield United
\* and Sheffield Wednesday to Sheffield United) with three teams each way, so
\* the second row overwrites the entry of the first
C13_Witness ==
    /\ pc = "mapped"
    /\ Cardinality(Promoted) = 3
    /\ Cardinality(Relegated) = 3
    /\ \E i, j \in 1..Len(championship_standings) :
           /\ i # j
           /\ \E t \in Promoted :
                  /\ Cell(t) \in match_team_name(championship_standings[i].team_name,
                                                 Promoted)
                  /\ Cell(t) \in match_team_name(championship_standings[j].team_name,
                                                 Promoted)
    /\ Cardinality(DOMAIN team_mapping) = 3

(***************************************************************************)
(* C14: with no Championship table (an empty frame, which is not an error) *)
(* the promoted teams in name order are paired position by position with   *)
(* the relegated teams in name order.                                      *)
(***************************************************************************)
C14_FallbackPairing ==
    (pc = "mapped" /\ championship_standings = <<>>) =>
        /\ DOMAIN team_mapping
               = {t \in Promoted :
                      RankIn(Promoted, t) < Min(Cardinality(Promoted),
                                                Cardinality(Relegated))}
        /\ \A p \in DOMAIN team_mapping :
               /\ team_mapping[p] \in Relegated
               /\ RankIn(Relegated, team_mapping[p]) = RankIn(Promoted, p)

\* promoted = {Leicester}, relegated = {Burnley}, no table: {Leicester: Burnley}
C14_Witness ==
    /\ pc = "mapped"
    /\ championship_standings = <<>>
    /\ Promoted = {"Leicester"}
    /\ Relegated = {"Burnley"}
    /\ team_mapping = [t \in {"Leicester"} |-> "Burnley"]

(***************************************************************************)
(* C15: with a non-empty table and as many promoted as relegated teams,    *)
(* the promoted teams resolved from the first three rows, in order of      *)
(* position, are mapped from the end of the relegated teams in name order: *)
(* the k-th resolved row's team to the k-th relegated team from the end.   *)
(* Which team a row resolves to is any result _match_team_name can give.   *)
(***************************************************************************)
HeadRowNumbers == 1..Min(Len(championship_standings), HeadRows)

\* the ways the head rows can resolve: row number -> NaN or a promoted team
Resolutions ==
    {res \in [HeadRowNumbers -> {NaN} \cup {Cell(t) : t \in Promoted}] :
        \A i \in HeadRowNumbers :
            res[i] \in match_team_name(championship_standings[i].team_name, Promoted)}

\* the rank of head row i among the resolved rows, best position first
ResolvedRank(res, i) ==
    1 + Cardinality({j \in HeadRowNumbers :
                        /\ notna(res[j])
                        /\ championship_standings[j].position
                               < championship_standings[i].position})

\* the k-th relegated team counted from the end of the name order
RelegatedFromEnd(k) ==
    CHOOSE r \in Relegated :
        Cardinality({u \in Relegated : Lex(u) > Lex(r)}) = k - 1

C15_RankPairing ==
    (/\ pc = "mapped"
     /\ championship_standings # <<>>
     /\ Cardinality(Promoted) = Cardinality(Relegated)
     /\ Promoted # {})
    => \E res \in Resolutions :
           \A i \in HeadRowNumbers :
               (notna(res[i]) /\ ResolvedRank(res, i) <= Cardinality(Relegated))
               => /\ res[i][1] \in DOMAIN team_mapping
                  /\ team_mapping[res[i][1]] = RelegatedFromEnd(ResolvedRank(res, i))

\* the table of the tests: Leicester City 1st, Leeds United 2nd, Southampton
\* FC 3rd against relegated Burnley, Luton and Sheffield United
C15_Witness ==
    /\ pc = "mapped"
    /\ Promoted = {"Leeds", "Leicester", "Southampton"}
    /\ Relegated = {"Burnley", "Luton", "Sheffield United"}
    /\ championship_standings =
           <<[position |-> 1, team_name |-> "Leicester City"],
             [position |-> 2, team_name |-> "Leeds United"],
             [position |-> 3, team_name |-> "Southampton FC"]>>
    /\ team_mapping = [t \in {"Leeds", "Leicester", "Southampton"} |->
                          CASE t = "Leicester" -> "Sheffield United"
                            [] t = "Leeds" -> "Luton"
                            [] t = "Southampton" -> "Burnley"]

(***************************************************************************)
(* C16: the projection has one record per current fixture, in the order of *)
(* the current file, carrying the fixture's id, teams and scores and the   *)
(* substituted teams; a fixture with no equivalent in the comparison file  *)
(* is kept, with mapping_found false and the comparison fields null.       *)
(***************************************************************************)
\* the rows of the comparison file on the pair (h, a), in this orientation
SameOrientation(h, a) ==
    {j \in 1..Len(comparison_fixtures) :
        /\ comparison_fixtures[j].home_team = h
        /\ comparison_fixtures[j].away_team = a}

HasEquivalent(r) ==
    \/ SameOrientation(r.mapped_home_team, r.mapped_away_team) # {}
    \/ SameOrientation(r.mapped_away_team, r.mapped_home_team) # {}

C16_OneRecordPerFixture ==
    pc = "projected" =>
        /\ Len(mapped_fixtures) = Len(current_fixtures)
        /\ \A i \in 1..Len(current_fixtures) :
               LET f == current_fixtures[i]
                   r == mapped_fixtures[i]
               IN  /\ r.current_fixture_id = f.id
                   /\ r.current_home_team = f.home_team
                   /\ r.current_away_team = f.away_team
                   /\ r.current_home_score = f.home_score
                   /\ r.current_away_score = f.away_score
                   /\ r.mapped_home_team = Substitute(f.home_team)
                   /\ r.mapped_away_team = Substitute(f.away_team)
                   /\ ~HasEquivalent(r) =>
                          /\ r.mapping_found = FALSE
                          /\ r.comparison_fixture_id = NaN
                          /\ r.comparison_home_score = NaN
                          /\ r.comparison_away_score = NaN

\* two current fixtures, the first with no equivalent and the second with
\* one, and a promoted Leicester substituted by Burnley
C16_Witness ==
    /\ pc = "projected"
    /\ Len(current_fixtures) = 2
    /\ Len(mapped_fixtures) = 2
    /\ ~HasEquivalent(mapped_fixtures[1])
    /\ mapped_fixtures[1].mapping_found = FALSE
    /\ mapped_fixtures[1].current_fixture_id = 1
    /\ mapped_fixtures[2].mapping_found = TRUE
    /\ \E i \in 1..2 :
           /\ mapped_fixtures[i].current_home_team = "Leicester"
           /\ mapped_fixtures[i].mapped_home_team = "Burnley"

(***************************************************************************)
(* C17: mapping_found is true exactly when the comparison file holds the   *)
(* substituted pair in either orientation; the record is joined to the     *)
(* first row of the same orientation when there is one, and to the first   *)
(* row of the reversed orientation only when there is none.                *)
(***************************************************************************)
First(S) == CHOOSE j \in S : \A k \in S : j <= k

JoinedRow(r) ==
    IF SameOrientation(r.mapped_home_team, r.mapped_away_team) # {}
    THEN First(SameOrientation(r.mapped_home_team, r.mapped_away_team))
    ELSE First(SameOrientation(r.mapped_away_team, r.mapped_home_team))

C17_FirstMatchSameOrientationFirst ==
    pc = "projected" =>
        \A i \in 1..Len(mapped_fixtures) :
            LET r == mapped_fixtures[i]
            IN  /\ r.mapping_found = HasEquivalent(r)
                /\ r.mapping_found =>
                       LET c == comparison_fixtures[JoinedRow(r)]
                       IN  /\ r.comparison_fixture_id = Cell(c.id)
                           /\ r.comparison_home_score = c.home_score
                           /\ r.comparison_away_score = c.away_score

\* the comparison file lists the reversed pair in row 1 and the pair itself
\* in rows 2 and 3: the record is joined to row 2
C17_Witness ==
    /\ pc = "projected"
    /\ \E i \in 1..Len(mapped_fixtures) :
           LET r == mapped_fixtures[i]
           IN  /\ SameOrientation(r.mapped_away_team, r.mapped_home_team) = {1}
               /\ SameOrientation(r.mapped_home_team, r.mapped_away_team) = {2, 3}
               /\ r.comparison_fixture_id = Cell(2)
               /\ r.comparison_home_score = Cell(2)

(***************************************************************************)
(* Quantities of the calls on the files of data/.                          *)
(***************************************************************************)
\* the backing data of a season cannot be supplied: no file, no record, a
\* required field missing, or fewer than 100 records
Unavailable(season) ==
    \/ data_dir[season] = NaN
    \/ Len(data_dir[season][1].rows) = 0
    \/ \E field \in {"id", "home_team", "away_team", "season"} :
           field \notin data_dir[season][1].columns
    \/ Len(data_dir[season][1].rows) < 100

RunsCompare ==
    call.name \in {"compare_team_performance", "get_team_performance_summary",
                   "get_top_improvers"}

C19_LoadFailureFailsCompare ==
    (/\ RunsCompare
     /\ pc # "start"
     /\ Unavailable("current") \/ Unavailable("comparison"))
    => /\ pc = "raised"
       /\ raised # NaN
       /\ raised[1].seasons = {"current", "comparison"}
       /\ raised[1].cause # NaN
       /\ raised[1].cause[1].seasons \subseteq
              {season \in {"current", "comparison"} : Unavailable(season)}
       /\ comparison_df = <<>>
       /\ returned = NaN

\* get_top_improvers on a valid metric, the current season loaded and the
\* comparison season one record short
C19_Witness ==
    /\ call.name = "get_top_improvers"
    /\ call.metric = "points"
    /\ pc = "raised"
    /\ ~Unavailable("current")
    /\ data_dir["comparison"] # NaN
    /\ data_dir["comparison"][1].columns = all_columns
    /\ Len(data_dir["comparison"][1].rows) = 99
    /\ raised # NaN
    /\ raised[1].cause # NaN
    /\ raised[1].cause[1].seasons = {"comparison"}
    /\ returned = NaN

(***************************************************************************)
(* C20: when no mapped fixture has mapping_found = true, compare_seasons   *)
(* raises its "No mapped fixtures found" error and returns no table.       *)
(***************************************************************************)
NoFixtureMapped ==
    \A i \in 1..Len(mapped_fixtures) : ~mapped_fixtures[i].mapping_found

C20_NoMappedFixturesRaises ==
    (pc \in {"done", "raised"} /\ NoFixtureMapped)
    => /\ pc = "raised"
       /\ raised # NaN
       /\ raised[1].message = "No mapped fixtures found"
       /\ comparison_df = <<>>

\* compare_seasons returned, an empty table, with no fixture mapped
C20_Witness ==
    /\ pc = "done"
    /\ Len(mapped_fixtures) > 0
    /\ NoFixtureMapped
    /\ raised = NaN
    /\ comparison_df = <<>>


(***************************************************************************)
(* C21: when compare_seasons returned its table, get_team_comparison       *)
(* raises nothing.  For a team that is in no row of the table it returns a *)
(* not-found value that names the team; for a team of the table it returns *)
(* the values of the team's first row, the games played of each season     *)
(* being won + drawn + lost of that season.                                *)
(***************************************************************************)
TeamRows(team_name) ==
    {i \in 1..Len(comparison_df) : comparison_df[i].Team_name = team_name}

\* the exceptions compare_seasons ends with
CompareErrors ==
    {"Cannot perform season comparison", "No mapped fixtures found",
     "Cannot set a DataFrame with multiple columns"}

\* the call went through compare_seasons and compare_seasons returned its table
CompareReturned ==
    /\ RunsCompare
    /\ pc # "start"
    /\ (raised = NaN \/ raised[1].message \notin CompareErrors)

C21_TeamDetailFoundOrNotFound ==
    (call.name = "get_team_performance_summary" /\ CompareReturned) =>
        /\ pc = "returned"
        /\ raised = NaN
        /\ returned # NaN
        /\ returned[1].team = call.team_name
        /\ IF TeamRows(call.team_name) = {}
           THEN "error" \in DOMAIN returned[1]
           ELSE LET row == comparison_df[CHOOSE i \in TeamRows(call.team_name) :
                                            \A j \in TeamRows(call.team_name) : i <= j]
                    cur == returned[1].current_season
                    prev == returned[1].comparison_season
                IN  /\ "error" \notin DOMAIN returned[1]
                    /\ cur.wins = row.Won /\ cur.draws = row.Draw
                    /\ cur.losses = row.Lost /\ cur.points = row.Points
                    /\ cur.goals_for = row.Goals_for
                    /\ cur.goals_against = row.Goals_against
                    /\ cur.goal_difference = row.Goal_difference
                    /\ cur.games_played = row.Won + row.Draw + row.Lost
                    /\ prev.wins = row.Previous_won /\ prev.draws = row.Previous_draw
                    /\ prev.losses = row.Previous_lost
                    /\ prev.points = row.Previous_points
                    /\ prev.goals_for = row.Previous_goals_for
                    /\ prev.goals_against = row.Previous_goals_against
                    /\ prev.goal_difference = row.Previous_goal_difference
                    /\ prev.games_played = row.Previous_won + row.Previous_draw
                                               + row.Previous_lost
                    /\ returned[1].differences.points = row.Points_difference

\* Burnley, relegated and in no row of the table, is asked for
C21_Witness ==
    /\ call.name = "get_team_performance_summary"
    /\ call.team_name = "Burnley"
    /\ pc = "returned"
    /\ Len(comparison_df) = 3
    /\ TeamRows("Burnley") = {}
    /\ returned # NaN
    /\ "error" \in DOMAIN returned[1]

(***************************************************************************)
(* C22: for a metric other than points, goal_difference and goals_for,     *)
(* get_top_improvers ends with the "Invalid metric" error and returns no   *)
(* list, whatever the state of the season files.                           *)
(***************************************************************************)
C22_InvalidMetricWhateverTheData ==
    (/\ call.name = "get_top_improvers"
     /\ call.metric \notin {"points", "goal_difference", "goals_for"}
     /\ pc # "start")
    => /\ pc = "raised"
       /\ raised # NaN
       /\ raised[1].message = "Invalid metric"
       /\ returned = NaN

\* goals_against is asked for while the current season's file is missing:
\* the call ends with the error of compare_seasons
C22_Witness ==
    /\ call.name = "get_top_improvers"
    /\ call.metric = "goals_against"
    /\ data_dir["current"] = NaN
    /\ ~Unavailable("comparison")
    /\ pc = "raised"
    /\ raised # NaN
    /\ raised[1].message = "Cannot perform season comparison"

(***************************************************************************)
(* C23: for a valid metric and a table of N rows, get_top_improvers        *)
(* returns min(top_n, N) entries, none when top_n <= 0, in non-increasing  *)
(* order of the metric's difference column; every team left out has a     *)
(* difference not greater than that of any team returned, and in every     *)
(* entry improvement = current_season_value - comparison_season_value.     *)
(***************************************************************************)
DifferenceOf(row, metric) ==
    CASE metric = "points" -> row.Points - row.Previous_points
      [] metric = "goal_difference" -> row.Goal_difference - row.Previous_goal_difference
      [] metric = "goals_for" -> row.Goals_for - row.Previous_goals_for

CurrentValueOf(row, metric) ==
    CASE metric = "points" -> row.Points
      [] metric = "goal_difference" -> row.Goal_difference
      [] metric = "goals_for" -> row.Goals_for

C23_TopImprovers ==
    (/\ call.name = "get_top_improvers"
     /\ call.metric \in {"points", "goal_difference", "goals_for"}
     /\ CompareReturned)
    => /\ pc = "returned"
       /\ raised = NaN
       /\ returned # NaN
       /\ LET top == returned[1]
              N == Len(comparison_df)
              taken == {top[k].team : k \in 1..Len(top)}
          IN  /\ Len(top) = IF call.top_n <= 0 THEN 0 ELSE Min(call.top_n, N)
              /\ Cardinality(taken) = Len(top)
              /\ \A k \in 1..Len(top) :
                     /\ top[k].improvement
                            = top[k].current_season_value - top[k].comparison_season_value
                     /\ \E i \in 1..N :
                            /\ comparison_df[i].Team_name = top[k].team
                            /\ top[k].improvement = DifferenceOf(comparison_df[i], call.metric)
                            /\ top[k].current_season_value
                                   = CurrentValueOf(comparison_df[i], call.metric)
              /\ \A k \in 1..(Len(top) - 1) : top[k].improvement >= top[k + 1].improvement
              /\ \A i \in 1..N : \A k \in 1..Len(top) :
                     comparison_df[i].Team_name \notin taken
                         => DifferenceOf(comparison_df[i], call.metric) <= top[k].improvement

\* two of three teams are returned, and the one with the most current points
\* is not the one that improved most
C23_Witness ==
    /\ call.name = "get_top_improvers"
    /\ call.metric = "goals_for"
    /\ call.top_n = 2
    /\ pc = "returned"
    /\ Len(comparison_df) = 3
    /\ returned # NaN
    /\ Len(returned[1]) = 2
    /\ returned[1][1].team # comparison_df[1].Team_name
    /\ returned[1][1].improvement > returned[1][2].improvement

(***************************************************************************)
(* C24: in the comparison view a team's goals_for is the sum of the goals  *)
(* the team itself scored, and its goals_against the sum of the goals its  *)
(* opponent scored, in the comparison-season fixtures joined to its        *)
(* fixtures, and its wins, draws and losses are decided on those scores,   *)
(* also when the joined fixture was found through the reversed pair.       *)
(***************************************************************************)
JoinedFixture(j) == comparison_fixtures[mapped_fixtures[j].comparison_fixture_id[1]]

\* what the team scored, and what it conceded, in the fixture joined to record j
ScoredInJoined(j, t) ==
    IF JoinedFixture(j).home_team = t THEN JoinedFixture(j).home_score[1]
    ELSE JoinedFixture(j).away_score[1]
ConcededInJoined(j, t) ==
    IF JoinedFixture(j).home_team = t THEN JoinedFixture(j).away_score[1]
    ELSE JoinedFixture(j).home_score[1]

JoinedOf(t) == FixturesOf(FoundScoredFixtures("comparison"), "comparison", t)

FoundReversed(j) ==
    /\ mapped_fixtures[j].mapping_found
    /\ JoinedFixture(j).home_team = mapped_fixtures[j].mapped_away_team
    /\ JoinedFixture(j).away_team = mapped_fixtures[j].mapped_home_team

C24_ComparisonViewOwnGoals ==
    pc = "done" =>
        \A t \in AllNames : \A i \in RowsOfTeam(comparison_performance, t) :
            LET row == comparison_performance[i]
            IN  /\ row.goals_for
                       = SumSeq([j \in 1..Len(mapped_fixtures) |->
                                    IF j \in JoinedOf(t) THEN ScoredInJoined(j, t) ELSE 0])
                /\ row.goals_against
                       = SumSeq([j \in 1..Len(mapped_fixtures) |->
                                    IF j \in JoinedOf(t) THEN ConcededInJoined(j, t) ELSE 0])
                /\ row.wins = Cardinality({j \in JoinedOf(t) :
                                  ScoredInJoined(j, t) > ConcededInJoined(j, t)})
                /\ row.draws = Cardinality({j \in JoinedOf(t) :
                                   ScoredInJoined(j, t) = ConcededInJoined(j, t)})
                /\ row.losses = Cardinality({j \in JoinedOf(t) :
                                    ScoredInJoined(j, t) < ConcededInJoined(j, t)})

\* a fixture joined through the reversed pair, which its mapped home team
\* lost away without scoring: the comparison view gives that team the win
C24_Witness ==
    /\ pc = "done"
    /\ \E j \in FoundScoredFixtures("comparison") :
           LET t == mapped_fixtures[j].mapped_home_team
           IN  /\ FoundReversed(j)
               /\ JoinedOf(t) = {j}
               /\ ScoredInJoined(j, t) = 0
               /\ ConcededInJoined(j, t) = 1
               /\ \E i \in RowsOfTeam(comparison_performance, t) :
                      /\ comparison_performance[i].wins = 1
                      /\ comparison_performance[i].goals_for = 1
                      /\ comparison_performance[i].goals_against = 0

(***************************************************************************)
(* Quantities of the Championship table.                                   *)
(***************************************************************************)
\* the standings are used: the table has rows and as many clubs came up as
\* went down
StandingsUsed ==
    /\ championship_standings # <<>>
    /\ Promoted # {}
    /\ Cardinality(Promoted) = Cardinality(Relegated)

\* the mappings the pairing gives when the rows considered are these
MappingsFromRows(rows) ==
    {FallbackMapping(PairByPosition(SortByPosition(l), sorted(Relegated), Len(l)),
                     Promoted, Relegated) :
         l \in MatchedRows(rows, Promoted)}

\* the rows of the clubs that finished in the first n positions
TopFinishers(n) == SelectSeq(championship_standings, LAMBDA row : row.position <= n)

\* the first n rows of the table
FirstRows(n) ==
    SubSeq(championship_standings, 1, Min(n, Len(championship_standings)))

(***************************************************************************)
(* C25 as stated: when the standings are used, the rows considered are     *)
(* those of the top |promoted| finishers: the mapping is the one the       *)
(* pairing gives on the rows ranked 1..|promoted|, so that a row ranked    *)
(* below |promoted| decides nothing and, with more than three promoted     *)
(* clubs, the rows ranked 4..|promoted| count.  The code refutes this.     *)
(***************************************************************************)
C25_TopPromotedFinishers ==
    (pc = "mapped" /\ StandingsUsed) =>
        team_mapping \in MappingsFromRows(TopFinishers(Cardinality(Promoted)))

(***************************************************************************)
(* C25 amended: when the standings are used, the rows considered are the   *)
(* first three rows of the table, whatever the number of promoted clubs:   *)
(* the mapping is the one the pairing gives on those three rows, a row     *)
(* beyond the third decides nothing, and a third row counts also when      *)
(* fewer than three clubs were promoted.                                   *)
(***************************************************************************)
C25_FirstThreeRows ==
    (pc = "mapped" /\ StandingsUsed) =>
        team_mapping \in MappingsFromRows(FirstRows(3))

\* four clubs promoted and a table of four rows whose fourth row names one
\* of them, which the mapping pairs as the fallback does and not by rank
C25_Witness ==
    /\ pc = "mapped"
    /\ StandingsUsed
    /\ Cardinality(Promoted) = 4
    /\ Len(championship_standings) = 4
    /\ championship_standings[4].team_name = "Norwich City"
    /\ team_mapping \notin MappingsFromRows(championship_standings)

(***************************************************************************)
(* C26: compare_seasons is a function of the two fixture lists and the     *)
(* Championship table: every run on them returns the table this run        *)
(* returned, row for row, and teams level on current points are listed in  *)
(* the order of the merge (the order of their names), whatever the order   *)
(* in which a set of teams is iterated.                                    *)
(***************************************************************************)
RunsOfCompare ==
    UNION {compare_outcomes(current_fixtures, comparison_fixtures, mapping) :
               mapping \in create_team_mapping(current_fixtures, comparison_fixtures,
                                               championship_standings)}

C26_CompareDeterministic ==
    pc = "done" =>
        /\ \A o \in RunsOfCompare :
               o.raised = NaN => o.comparison_df = comparison_df
        /\ \A k \in 1..(Len(comparison_df) - 1) :
               comparison_df[k].Points = comparison_df[k + 1].Points
                   => Lex(comparison_df[k].Team_name) < Lex(comparison_df[k + 1].Team_name)

\* Leeds United resolved to Sheffield United in this run and to Manchester
\* United in another, and the other run returns a table with other teams:
\* no two rows of either table are level on points
C26_Witness ==
    /\ pc = "done"
    /\ comparison_df # <<>>
    /\ \A k \in 1..(Len(comparison_df) - 1) :
           comparison_df[k].Points > comparison_df[k + 1].Points
    /\ \E o \in RunsOfCompare :
           /\ o.raised = NaN
           /\ o.team_mapping # team_mapping
           /\ o.comparison_df # <<>>
           /\ \A k \in 1..(Len(o.comparison_df) - 1) :
                  o.comparison_df[k].Points > o.comparison_df[k + 1].Points
           /\ {o.comparison_df[k].Team_name : k \in 1..Len(o.comparison_df)}
                  # {comparison_df[k].Team_name : k \in 1..Len(comparison_df)}

(***************************************************************************)
(* C27: within one call of compare_seasons each season's fixtures are read *)
(* once, so that the team mapping is built from the fixtures that are      *)
(* projected: when a season file changes while the call runs, the mapping  *)
(* is still the mapping of the team sets of the frames projected.          *)
(***************************************************************************)
C27_MappingOfProjectedFrames ==
    (pc \in {"mapping_built", "done"}) =>
        /\ team_mapping \in create_team_mapping(current_fixtures, comparison_fixtures,
                                                championship_standings)
        /\ DOMAIN team_mapping \subseteq Promoted

\* the call returned a table although the mapping names a promoted club
\* that is in no fixture projected: Leicester's fixtures were read, the file
\* was replaced, and Leeds was mapped
C27_Witness ==
    /\ pc = "done"
    /\ "Leicester" \in Participants(current_fixtures)
    /\ "Leeds" \notin Participants(current_fixtures)
    /\ "Leeds" \in DOMAIN team_mapping
    /\ "Leicester" \notin DOMAIN team_mapping
    /\ comparison_df # <<>>

(***************************************************************************)
(* C28: _match_team_name returns the name itself when it is in the set;    *)
(* else its alias of the alias table when the alias is in the set; else a  *)
(* team of the set that shares a lower-cased word with the name; else      *)
(* None.  The result is a member of the set or None, and the same name and *)
(* set always give the same result, also when several teams share a word.  *)
(***************************************************************************)
SharingWord(championship_name, epl_teams) ==
    {t \in epl_teams : Words(championship_name) \cap Words(t) # {}}

C28_NameResolution ==
    (call.name = "_match_team_name" /\ pc = "returned") =>
        LET championship_name == call.championship_name
            epl_teams == call.epl_teams
            matched == returned[1]
            sharing == SharingWord(championship_name, epl_teams)
        IN  /\ IF championship_name \in epl_teams
               THEN matched = Cell(championship_name)
               ELSE IF /\ championship_name \in DOMAIN name_mappings
                       /\ name_mappings[championship_name] \in epl_teams
               THEN matched = Cell(name_mappings[championship_name])
               ELSE IF sharing # {}
               THEN matched # NaN /\ matched[1] \in sharing
               ELSE matched = NaN
            /\ (matched = NaN \/ matched[1] \in epl_teams)
            /\ \A other \in match_team_name(championship_name, epl_teams) :
                   other = matched

\* Leeds United is looked up in a set without Leeds that holds Manchester
\* United and Sheffield United: this run returns the one, another the other
C28_Witness ==
    /\ call.name = "_match_team_name"
    /\ pc = "returned"
    /\ call.championship_name = "Leeds United"
    /\ call.epl_teams = {"Arsenal", "Manchester United", "Sheffield United"}
    /\ returned = Cell(Cell("Sheffield United"))
    /\ Cell("Manchester United")
           \in match_team_name(call.championship_name, call.epl_teams)

(***************************************************************************)
(* C29: a promoted team (in a current fixture, in no comparison fixture)   *)
(* that has a row in the table returned has all its Previous fields at 0   *)
(* and a points difference equal to its current points, also when it is    *)
(* mapped to a relegated team whose fixtures were found; the relegated     *)
(* team, under whose name those fixtures are counted, has no row.          *)
(***************************************************************************)
C29_PromotedTeamHasNoPrevious ==
    pc = "done" =>
        /\ \A P \in Promoted : \A i \in RowsNamed(P) :
               /\ comparison_df[i].Previous_won = 0
               /\ comparison_df[i].Previous_draw = 0
               /\ comparison_df[i].Previous_lost = 0
               /\ comparison_df[i].Previous_goals_for = 0
               /\ comparison_df[i].Previous_goals_against = 0
               /\ comparison_df[i].Previous_goal_difference = 0
               /\ comparison_df[i].Previous_points = 0
               /\ comparison_df[i].Points_difference = comparison_df[i].Points
        /\ \A R \in Relegated : RowsNamed(R) = {}

\* Leicester is mapped to Burnley, a fixture of Burnley was found and gave
\* Burnley points in the comparison view, and Leicester has a row with
\* current points
C29_Witness ==
    /\ pc = "done"
    /\ "Leicester" \in Promoted
    /\ "Leicester" \in DOMAIN team_mapping
    /\ team_mapping["Leicester"] = "Burnley"
    /\ \E i \in RowsOfTeam(comparison_performance, "Burnley") :
           comparison_performance[i].points > 0
    /\ \E i \in RowsNamed("Leicester") : comparison_df[i].Points > 0

(***************************************************************************)
(* C30: when each season's file holds every ordered pair of distinct clubs *)
(* of the season exactly once and as many clubs came up as went down,      *)
(* every projected fixture is found, the comparison fixture joined to it   *)
(* is the one on the substituted teams in the same orientation, distinct   *)
(* current fixtures are joined to distinct comparison fixtures, and every  *)
(* comparison fixture is joined to one.                                    *)
(***************************************************************************)
IsDoubleRoundRobin(fixtures) ==
    /\ \A i \in 1..Len(fixtures) : fixtures[i].home_team # fixtures[i].away_team
    /\ \A h, a \in Participants(fixtures) :
           h # a => Cardinality({i \in 1..Len(fixtures) :
                                    /\ fixtures[i].home_team = h
                                    /\ fixtures[i].away_team = a}) = 1

JoinedIds == {mapped_fixtures[i].comparison_fixture_id[1] :
                 i \in {k \in 1..Len(mapped_fixtures) : mapped_fixtures[k].mapping_found}}

C30_RoundRobinBijection ==
    (/\ pc = "projected"
     /\ IsDoubleRoundRobin(current_fixtures)
     /\ IsDoubleRoundRobin(comparison_fixtures)
     /\ Cardinality(Promoted) = Cardinality(Relegated)) =>
        /\ Len(mapped_fixtures) = Len(current_fixtures)
        /\ \A i \in 1..Len(mapped_fixtures) :
               /\ mapped_fixtures[i].mapping_found
               /\ \E j \in SameOrientation(mapped_fixtures[i].mapped_home_team,
                                           mapped_fixtures[i].mapped_away_team) :
                      mapped_fixtures[i].comparison_fixture_id
                          = Cell(comparison_fixtures[j].id)
        /\ \A i, k \in 1..Len(mapped_fixtures) :
               i # k => mapped_fixtures[i].comparison_fixture_id
                            # mapped_fixtures[k].comparison_fixture_id
        /\ JoinedIds = {comparison_fixtures[j].id : j \in 1..Len(comparison_fixtures)}

\* two whole seasons of four clubs, two of them promoted, one resolved twice
\* from the table and the other paired by the fallback, all twelve fixtures
\* projected
C30_Witness ==
    /\ pc = "projected"
    /\ IsDoubleRoundRobin(current_fixtures)
    /\ IsDoubleRoundRobin(comparison_fixtures)
    /\ Promoted = {"Leeds", "Sheffield United"}
    /\ Relegated = {"Burnley", "Luton"}
    /\ Len(championship_standings) >= 2
    /\ championship_standings[1].team_name = "Sheffield United"
    /\ championship_standings[2].team_name = "Sheffield Wednesday"
    /\ team_mapping = [t \in {"Leeds", "Sheffield United"} |->
                          IF t = "Leeds" THEN "Luton" ELSE "Burnley"]
    /\ Len(mapped_fixtures) = 12
    /\ \A i \in 1..Len(mapped_fixtures) : mapped_fixtures[i].mapping_found

====
